---- MODULE Spec2Model ----
(***************************************************************************)
(* Model of the stocking-chain analysis engine: the Go functions that turn *)
(* an OHLCV series into an analysis report (indicators, candlestick        *)
(* patterns, support/resistance, trend, Wyckoff analysis, recommendation   *)
(* and price ranges).                                                      *)
(*                                                                         *)
(* Numbers.  Prices and volumes of the input bars are integers.  Every     *)
(* float64 the code derives from them is modelled as an exact fraction     *)
(* [n, d] with d > 0; a fraction with d = 0 stands for the IEEE-754 value  *)
(* a division by zero yields: n > 0 is +Inf, n < 0 is -Inf, n = 0 is NaN.  *)
(* Comparisons follow IEEE-754: every comparison with NaN is false.        *)
(* Slice indices are 0-based as in the Go source: At(d, i) is d[i].        *)
(***************************************************************************)
EXTENDS Integers, Sequences, FiniteSets, TLC

VARIABLES
    series,             \* the input Series handed to the engine
    chart,              \* the decoded chart response the market-data client received
    called,             \* the operation that has run on the Series ("none" before)
    panicked,           \* whether that operation ended in a run-time panic
    analysisReport,     \* *AnalysisReport returned by Analyze
    wyckoffAnalysis,    \* WyckoffAnalysis returned by AnalyzeWyckoff
    supportResistance,  \* SupportResistance returned by DetectSupportResistance
    trendAnalysis,      \* TrendAnalysis returned by AnalyzeTrend
    candleShapes,       \* results of the single-candle shape predicates on the last bar
    candlestickPatterns,  \* []CandlestickPattern returned by DetectCandlestickPatterns
    secondReport,       \* *AnalysisReport returned by a second Analyze on the same Series
    clock,              \* the instant time.Now() returns next
    historicalData,     \* ([]StockData, error) returned by GetHistoricalData
    technicalIndicators, \* TechnicalIndicators returned by CalculateTechnicalIndicators
    priceUnit,          \* the Series holds the prices in units of 1/priceUnit
    consolidateInput,   \* []float64 handed to consolidateLevels (sorted in place by it)
    consolidateOutput,  \* []float64 returned by consolidateLevels
    request,            \* the decoded request of AnalyzeStock: method, whether the body decodes, symbol, days_back
    pc,                 \* the step AnalyzeStock is at
    response,           \* what AnalyzeStock has written: status code, error message, payload
    analyzerCalls,      \* how often AnalyzeStock has invoked Analyze
    stockInfo           \* the outcome of GetStockInfo

vars == <<series, chart, called, panicked, analysisReport, wyckoffAnalysis,
          supportResistance, trendAnalysis, candleShapes, candlestickPatterns,
          secondReport, clock, historicalData,
          technicalIndicators,
          priceUnit,
          consolidateInput,
          consolidateOutput,
          request,
          pc,
          response,
          analyzerCalls,
          stockInfo>>

----------------------------------------------------------------------------
(* Integer helpers *)

Abs(x) == IF x < 0 THEN -x ELSE x

Sign(x) == IF x > 0 THEN 1 ELSE IF x < 0 THEN -1 ELSE 0

MinInt(a, b) == IF a < b THEN a ELSE b

MaxInt(a, b) == IF a > b THEN a ELSE b

RECURSIVE Gcd(_, _)
Gcd(a, b) == IF b = 0 THEN a ELSE Gcd(b, a % b)

RECURSIVE SumF(_, _, _)
\* f[lo] + ... + f[hi]: the accumulation loops of the source
SumF(f, lo, hi) ==
    IF lo > hi THEN 0
    ELSE IF lo = hi THEN f[lo]
    ELSE SumF(f, lo, (lo + hi) \div 2) + SumF(f, (lo + hi) \div 2 + 1, hi)

----------------------------------------------------------------------------
(* float64 as fractions *)

\* the fraction n/d in lowest terms (d > 0)
R(n, d) ==
    IF d = 0 THEN [n |-> Sign(n), d |-> 0]
    ELSE LET g == Gcd(Abs(n), d)
         IN  [n |-> n \div g, d |-> d \div g]

NaN == [n |-> 0, d |-> 0]

RI(x) == [n |-> x, d |-> 1]

IsNaN(a) == a.d = 0 /\ a.n = 0

IsFinite(a) == a.d > 0

\* sums and comparisons go through the least common denominator, which keeps
\* the integers small
RAdd(a, b) ==
    IF a.d = 0 /\ b.d = 0 THEN (IF a.n = b.n THEN a ELSE NaN)
    ELSE IF a.d = 0 THEN a
    ELSE IF b.d = 0 THEN b
    ELSE
    LET g == Gcd(a.d, b.d)
    IN  R(a.n * (b.d \div g) + b.n * (a.d \div g), (a.d \div g) * b.d)

RNeg(a) == [n |-> -a.n, d |-> a.d]

RSub(a, b) == RAdd(a, RNeg(b))

\* the product, with the common factors taken out before multiplying
RMul(a, b) ==
    IF a.d = 0 \/ b.d = 0 \/ a.n = 0 \/ b.n = 0 THEN R(a.n * b.n, a.d * b.d)
    ELSE LET g1 == Gcd(Abs(a.n), b.d)
             g2 == Gcd(Abs(b.n), a.d)
         IN  R((a.n \div g1) * (b.n \div g2), (a.d \div g2) * (b.d \div g1))

RAbs(a) == [n |-> Abs(a.n), d |-> a.d]

\* a / b with IEEE-754 results for a zero divisor
FDiv(a, b) ==
    IF IsNaN(a) \/ IsNaN(b) \/ (a.d = 0 /\ b.d = 0) THEN NaN
    ELSE IF b.d = 0 THEN RI(0)
    ELSE IF b.n = 0 THEN [n |-> Sign(a.n), d |-> 0]
    ELSE IF a.n = 0 THEN RI(0)
    ELSE RMul(a, [n |-> Sign(b.n) * b.d, d |-> Abs(b.n)])

\* a < b
Lt(a, b) ==
    /\ ~IsNaN(a)
    /\ ~IsNaN(b)
    /\ IF a.d = 0 /\ b.d = 0 THEN a.n < b.n
       ELSE IF a.d = 0 THEN a.n < 0
       ELSE IF b.d = 0 THEN b.n > 0
       ELSE LET g == Gcd(a.d, b.d)
            IN  a.n * (b.d \div g) < b.n * (a.d \div g)

Gt(a, b) == Lt(b, a)

\* a <= b
Le(a, b) ==
    /\ ~IsNaN(a)
    /\ ~IsNaN(b)
    /\ ~Lt(b, a)

Ge(a, b) == Le(b, a)

\* a == b
Eq(a, b) == Le(a, b) /\ Le(b, a)

\* math.Min, math.Max: NaN if either argument is NaN
RMin(a, b) == IF IsNaN(a) \/ IsNaN(b) THEN NaN ELSE IF Lt(b, a) THEN b ELSE a

RMax(a, b) == IF IsNaN(a) \/ IsNaN(b) THEN NaN ELSE IF Lt(a, b) THEN b ELSE a

\* a decimal literal of the source: Dec(2, 100) is 0.02
Dec(n, d) == R(n, d)

\* a price-valued result of a Series held in units of 1/unit
InUnits(x, unit) == FDiv(x, RI(unit))

----------------------------------------------------------------------------
(* models.StockData and the slices built from it *)

Bar(o, h, l, c, v) == [o |-> o, h |-> h, l |-> l, c |-> c, v |-> v]

\* d[i], 0-based
At(d, i) == d[i + 1]

\* d[lo:hi], 0-based, hi exclusive
Slice(d, lo, hi) == IF hi <= lo THEN << >> ELSE SubSeq(d, lo + 1, hi)

Last(d) == d[Len(d)]

Reverse(s) == [i \in 1..Len(s) |-> s[Len(s) + 1 - i]]

\* the number of entries of s below v
CountBelow(s, v) == Cardinality({i \in 1..Len(s) : Lt(s[i], v)})

\* the number of entries of s that are at most v
CountUpTo(s, v) == Cardinality({i \in 1..Len(s) : Le(s[i], v)})

\* sort.Float64s: ascending; position k holds the value v with fewer than k
\* entries below it and at least k entries up to it
SortFloat64s(s) ==
    [k \in 1..Len(s) |->
        CHOOSE v \in {s[i] : i \in 1..Len(s)} : CountBelow(s, v) < k /\ k <= CountUpTo(s, v)]

----------------------------------------------------------------------------
(* indicators.go *)

\* the Close column of a slice
Closes(d) == [i \in 1..Len(d) |-> d[i].c]

\* CalculateSMA over a slice of closes
SMAOf(cl, period) ==
    IF Len(cl) < period THEN RI(0)
    ELSE R(SumF(cl, Len(cl) - period + 1, Len(cl)), period)

CalculateSMA(d, period) == SMAOf(Closes(d), period)

\* The EMA recurrence is evaluated in fixed point: a value x is held as the
\* integer nearest to x * EmaScale.
EmaScale == 10000

RoundDiv(a, b) == (2 * a + b) \div (2 * b)

RECURSIVE EMAFrom(_, _, _, _, _)
\* for i := lo; i <= hi; i++ { ema = (close-ema)*multiplier + ema }
\* with multiplier = 2/(period+1); fx holds the closes in fixed point. The
\* iterations lo..hi are run as the first half of them and then the second.
EMAFrom(fx, period, lo, hi, ema) ==
    IF lo > hi \/ ema \notin Int THEN ema
    ELSE IF lo = hi THEN RoundDiv((At(fx, lo) - ema) * 2, period + 1) + ema
    ELSE EMAFrom(fx, period, (lo + hi) \div 2 + 1, hi,
                 EMAFrom(fx, period, lo, (lo + hi) \div 2, ema))

\* CalculateEMA over closes already in fixed point; the result is in fixed point
EMAFixed(fx, period) ==
    IF Len(fx) < period THEN 0
    ELSE EMAFrom(fx, period, period, Len(fx) - 1,
                 RoundDiv(SumF(fx, 1, period), period))

ToFixed(cl) == [i \in 1..Len(cl) |-> cl[i] * EmaScale]

CalculateEMA(d, period) == R(EMAFixed(ToFixed(Closes(d)), period), EmaScale)

\* the guard with the window of period bars, not period + 1
RSITooShortByOne(n, period) == n < period

\* if len(data) < period+1 { return 50 }
RSITooShort(n, period) == n < period + 1

\* the quotient taken without the avgLoss == 0 return
RSIFromAveragesUnguarded(avgGain, avgLoss) ==
    RSub(RI(100), FDiv(RI(100), RAdd(RI(1), FDiv(avgGain, avgLoss))))

\* if avgLoss == 0 { return 100 }; rs := avgGain / avgLoss; 100 - (100 / (1 + rs))
RSIFromAverages(avgGain, avgLoss) ==
    IF avgLoss.n = 0 THEN RI(100)
    ELSE RSub(RI(100), FDiv(RI(100), RAdd(RI(1), FDiv(avgGain, avgLoss))))

CalculateRSI(d, period) ==
    IF RSITooShort(Len(d), period) THEN RI(50)
    ELSE
    LET n      == Len(d)
        change == [i \in (n - period)..(n - 1) |-> At(d, i).c - At(d, i - 1).c]
        gains  == SumF([i \in DOMAIN change |-> IF change[i] > 0 THEN change[i] ELSE 0],
                       n - period, n - 1)
        losses == SumF([i \in DOMAIN change |-> IF change[i] > 0 THEN 0 ELSE -change[i]],
                       n - period, n - 1)
        avgGain == R(gains, period)
        avgLoss == R(losses, period)
    IN  RSIFromAverages(avgGain, avgLoss)

CalculateMACD(d) ==
    IF Len(d) < 26
    THEN [macd |-> RI(0), signal |-> RI(0), histogram |-> RI(0)]
    ELSE
    LET n     == Len(d)
        fx    == ToFixed(Closes(d))
        macd  == EMAFixed(fx, 12) - EMAFixed(fx, 26)
        \* macdLine[k] is the MACD of the prefix data[:i+1], i = 26 + k - 1
        macdLine == [k \in 1..(n - 26) |->
                        EMAFixed(SubSeq(fx, 1, 26 + k), 12)
                      - EMAFixed(SubSeq(fx, 1, 26 + k), 26)]
        signal == IF Len(macdLine) >= 9 THEN EMAFixed(macdLine, 9) ELSE 0
    IN  [macd      |-> R(macd, EmaScale),
         signal    |-> R(signal, EmaScale),
         histogram |-> R(macd - signal, EmaScale)]

\* math.Sqrt is evaluated to SqrtScale-ths, rounded down
SqrtScale == 100

RECURSIVE ISqrtFrom(_, _)
ISqrtFrom(v, r) == IF (r + 1) * (r + 1) > v THEN r ELSE ISqrtFrom(v, r + 1)

RECURSIVE ISqrt(_)
\* the integer square root, by halving
ISqrt(v) == IF v < 4 THEN ISqrtFrom(v, 0) ELSE ISqrtFrom(v, 2 * ISqrt(v \div 4))

Sqrt(x) ==
    LET k2 == SqrtScale * SqrtScale
        v  == (x.n \div x.d) * k2 + ((x.n % x.d) * k2) \div x.d
    IN  R(ISqrt(v), SqrtScale)

CalculateBollingerBands(d, period) ==
    IF Len(d) < period
    THEN [upper |-> RI(0), middle |-> RI(0), lower |-> RI(0)]
    ELSE
    LET n      == Len(d)
        middle == CalculateSMA(d, period)
        \* math.Pow(close-middle, 2) over the common denominator middle.d
        sq     == [i \in (n - period)..(n - 1) |->
                      (At(d, i).c * middle.d - middle.n) * (At(d, i).c * middle.d - middle.n)]
        variance == R(SumF(sq, n - period, n - 1), middle.d * middle.d)
        stdDev == Sqrt(FDiv(variance, RI(period)))
    IN  [upper  |-> RAdd(middle, RMul(RI(2), stdDev)),
         middle |-> middle,
         lower  |-> RSub(middle, RMul(RI(2), stdDev))]

CalculateTechnicalIndicators(d) ==
    LET m  == CalculateMACD(d)
        bb == CalculateBollingerBands(d, 20)
    IN  [rsi            |-> CalculateRSI(d, 14),
         macd           |-> m.macd,
         macdSignal     |-> m.signal,
         macdHistogram  |-> m.histogram,
         sma20          |-> CalculateSMA(d, 20),
         sma50          |-> CalculateSMA(d, 50),
         sma200         |-> CalculateSMA(d, 200),
         ema12          |-> CalculateEMA(d, 12),
         ema26          |-> CalculateEMA(d, 26),
         bollingerUpper |-> bb.upper,
         bollingerMid   |-> bb.middle,
         bollingerLower |-> bb.lower]

\* CalculateTechnicalIndicators on the Series whose prices are those of d divided by
\* unit: RSI is a ratio of price differences, every other indicator is a price
CalculateTechnicalIndicatorsIn(d, unit) ==
    LET ind == CalculateTechnicalIndicators(d)
    IN  [f \in DOMAIN ind |-> IF f = "rsi" THEN ind[f] ELSE InUnits(ind[f], unit)]

----------------------------------------------------------------------------
(* trend.go *)

average(values) ==
    IF Len(values) = 0 THEN RI(0)
    ELSE R(SumF(values, 1, Len(values)), Len(values))

linearRegression(d) ==
    LET n     == Len(d)
        idx   == 0..(n - 1)
        sumX  == SumF([i \in idx |-> i], 0, n - 1)
        sumY  == SumF([i \in idx |-> At(d, i).c], 0, n - 1)
        sumXY == SumF([i \in idx |-> i * At(d, i).c], 0, n - 1)
        sumX2 == SumF([i \in idx |-> i * i], 0, n - 1)
        slope == FDiv(RI(n * sumXY - sumX * sumY), RI(n * sumX2 - sumX * sumX))
        intercept == IF IsFinite(slope)
                     THEN FDiv(RSub(RI(sumY), RMul(slope, RI(sumX))), RI(n))
                     ELSE slope
    IN  [slope |-> slope, intercept |-> intercept]

\* the three trailing averages of calculateADX, for len(data) >= period+1
ADXAverages(d, period) ==
    LET n       == Len(d)
        upMove(i)   == At(d, i).h - At(d, i - 1).h
        downMove(i) == At(d, i - 1).l - At(d, i).l
        plusDM  == [k \in 1..(n - 1) |->
                      IF upMove(k) > downMove(k) /\ upMove(k) > 0 THEN upMove(k) ELSE 0]
        minusDM == [k \in 1..(n - 1) |->
                      IF downMove(k) > upMove(k) /\ downMove(k) > 0 THEN downMove(k) ELSE 0]
        tr      == [k \in 1..(n - 1) |->
                      MaxInt(At(d, k).h - At(d, k).l,
                             MaxInt(Abs(At(d, k).h - At(d, k - 1).c),
                                    Abs(At(d, k).l - At(d, k - 1).c)))]
    IN  [avgPlusDM  |-> average(Slice(plusDM, Len(plusDM) - period, Len(plusDM))),
         avgMinusDM |-> average(Slice(minusDM, Len(minusDM) - period, Len(minusDM))),
         avgTR      |-> average(Slice(tr, Len(tr) - period, Len(tr)))]

\* plusDI and minusDI of calculateADX, for avgTR != 0
ADXIndicators(a) ==
    [plusDI  |-> RMul(FDiv(a.avgPlusDM, a.avgTR), RI(100)),
     minusDI |-> RMul(FDiv(a.avgMinusDM, a.avgTR), RI(100))]

\* len(tr) = len(data)-1 >= period past the first guard
calculateADX(d, period) ==
    IF Len(d) < period + 1 THEN RI(0)
    ELSE
    LET a == ADXAverages(d, period)
    IN  IF a.avgTR.n = 0 THEN RI(0)
        ELSE
        LET di == ADXIndicators(a)
            q  == FDiv(RAbs(RSub(di.plusDI, di.minusDI)), RAdd(di.plusDI, di.minusDI))
        IN  IF IsFinite(q) THEN RMul(q, RI(100)) ELSE q

\* the divisors of the divisions calculateADX performs
calculateADXDivisors(d, period) ==
    IF Len(d) < period + 1 THEN {}
    ELSE LET a == ADXAverages(d, period)
         IN  IF a.avgTR.n = 0 THEN {}
             ELSE {a.avgTR, RAdd(ADXIndicators(a).plusDI, ADXIndicators(a).minusDI)}

\* the guard one bar short
TrendTooShortByOne(n) == n < 19

\* if len(data) < 20 { return sideways, 0, 0 }
TrendTooShort(n) == n < 20

\* the slope test with the strength taken from the slope itself
TrendBySlopeUnscaled(slope) ==
    IF Gt(slope, Dec(1, 1000))
    THEN [trend |-> "uptrend", strength |-> RMin(slope, RI(1))]
    ELSE IF Lt(slope, RNeg(Dec(1, 1000)))
    THEN [trend |-> "downtrend", strength |-> RMin(RAbs(slope), RI(1))]
    ELSE [trend |-> "sideways", strength |-> RI(0)]

\* trend and strength after the slope test; slope*1000 is only compared with 1.0
TrendBySlope(slope) ==
    IF Gt(slope, Dec(1, 1000))
    THEN [trend |-> "uptrend", strength |-> RMin(RMul(slope, RI(1000)), RI(1))]
    ELSE IF Lt(slope, RNeg(Dec(1, 1000)))
    THEN [trend |-> "downtrend", strength |-> RMin(RMul(RAbs(slope), RI(1000)), RI(1))]
    ELSE [trend |-> "sideways", strength |-> RI(0)]

\* the moving-average test deciding the trend alone
TrendByMAKeepsStrength(n, bySlope, currentPrice, sma20, sma50) ==
    IF n >= 50
    THEN IF Gt(currentPrice, sma20) /\ Gt(sma20, sma50)
         THEN [trend |-> "uptrend", strength |-> bySlope.strength]
         ELSE IF Lt(currentPrice, sma20) /\ Lt(sma20, sma50)
         THEN [trend |-> "downtrend", strength |-> bySlope.strength]
         ELSE bySlope
    ELSE bySlope

\* trend and strength after the moving-average test: if len(data) >= 50 { ... }
TrendByMA(n, bySlope, currentPrice, sma20, sma50) ==
    IF n >= 50
    THEN IF Gt(currentPrice, sma20) /\ Gt(sma20, sma50)
         THEN [trend |-> "uptrend", strength |-> RMax(bySlope.strength, Dec(6, 10))]
         ELSE IF Lt(currentPrice, sma20) /\ Lt(sma20, sma50)
         THEN [trend |-> "downtrend", strength |-> RMax(bySlope.strength, Dec(6, 10))]
         ELSE bySlope
    ELSE bySlope

\* the ADX test overriding the strength
TrendByADXOverrides(byMA, adx, trendLineValue) ==
    [trend     |-> byMA.trend,
     strength  |-> IF Gt(adx, RI(25)) THEN FDiv(adx, RI(100)) ELSE byMA.strength,
     trendLine |-> trendLineValue]

\* the returned TrendAnalysis, after the ADX test: if adx > 25 { ... }
TrendByADX(byMA, adx, trendLineValue) ==
    [trend     |-> byMA.trend,
     strength  |-> IF Gt(adx, RI(25)) THEN RMax(byMA.strength, FDiv(adx, RI(100)))
                   ELSE byMA.strength,
     trendLine |-> trendLineValue]

\* AnalyzeTrend past its length guard, from the regression line lr
TrendFrom(d, lr) ==
    TrendByADX(TrendByMA(Len(d), TrendBySlope(lr.slope), RI(Last(d).c),
                         CalculateSMA(d, 20), CalculateSMA(d, 50)),
               calculateADX(d, 14),
               RAdd(RMul(lr.slope, RI(Len(d) - 1)), lr.intercept))

AnalyzeTrend(d) ==
    IF TrendTooShort(Len(d))
    THEN [trend |-> "sideways", strength |-> RI(0), trendLine |-> RI(0)]
    ELSE TrendFrom(d, linearRegression(d))

\* AnalyzeTrend on the Series whose prices are those of d divided by unit: the sums of
\* linearRegression and CalculateSMA are linear in the prices, calculateADX is a
\* ratio of price differences
AnalyzeTrendIn(d, unit) ==
    IF TrendTooShort(Len(d))
    THEN [trend |-> "sideways", strength |-> RI(0), trendLine |-> RI(0)]
    ELSE LET lr        == linearRegression(d)
             slope     == InUnits(lr.slope, unit)
             intercept == InUnits(lr.intercept, unit)
         IN  TrendByADX(TrendByMA(Len(d), TrendBySlope(slope), Dec(Last(d).c, unit),
                                  InUnits(CalculateSMA(d, 20), unit),
                                  InUnits(CalculateSMA(d, 50), unit)),
                        calculateADX(d, 14),
                        RAdd(RMul(slope, RI(Len(d) - 1)), intercept))

----------------------------------------------------------------------------
(* support_resistance.go *)

lookback == 5

\* the bars the pivot loop visits: for i := lookback; i < len(data)-lookback; i++
PivotRange(n) == lookback..(n - lookback - 1)

PivotPointsAt(d, i) ==
    LET window      == ((i - lookback)..(i + lookback)) \ {i}
        isLocalHigh == \A j \in window : ~(At(d, j).h > At(d, i).h)
        isLocalLow  == \A j \in window : ~(At(d, j).l < At(d, i).l)
    IN  (IF isLocalHigh THEN <<[price |-> At(d, i).h, isLow |-> FALSE]>> ELSE << >>)
        \o (IF isLocalLow THEN <<[price |-> At(d, i).l, isLow |-> TRUE]>> ELSE << >>)

RECURSIVE PivotsFrom(_, _, _)
\* the pivots the iterations lo..hi of the loop append, first half then second
PivotsFrom(d, lo, hi) ==
    IF lo > hi THEN << >>
    ELSE IF lo = hi THEN PivotPointsAt(d, lo)
    ELSE PivotsFrom(d, lo, (lo + hi) \div 2) \o PivotsFrom(d, (lo + hi) \div 2 + 1, hi)

\* for i := lookback; i < len(data)-lookback; i++
findPivotPoints(d) == PivotsFrom(d, lookback, Len(d) - lookback - 1)

\* the iteration appending a level at the threshold too
ConsolidateStepInclusive(consolidated, level) ==
    LET lastLevel == consolidated[Len(consolidated)]
        diff      == FDiv(RAbs(RSub(level, lastLevel)), lastLevel)
        threshold == Dec(2, 100)
    IN  IF Ge(diff, threshold)
        THEN Append(consolidated, level)
        ELSE [consolidated EXCEPT ![Len(consolidated)] =
                 FDiv(RAdd(lastLevel, level), RI(2))]

\* one iteration of the loop of consolidateLevels, on the list built so far
ConsolidateStep(consolidated, level) ==
    LET lastLevel == consolidated[Len(consolidated)]
        diff      == FDiv(RAbs(RSub(level, lastLevel)), lastLevel)
        threshold == Dec(2, 100)
    IN  IF Gt(diff, threshold)
        THEN Append(consolidated, level)
        ELSE [consolidated EXCEPT ![Len(consolidated)] =
                 FDiv(RAdd(lastLevel, level), RI(2))]

RECURSIVE Consolidate(_, _, _, _)
\* the iterations lo..hi of the loop of consolidateLevels, first half then second;
\* the list built so far always holds the first level at least
Consolidate(levels, lo, hi, consolidated) ==
    IF lo > hi \/ Len(consolidated) = 0 THEN consolidated
    ELSE IF lo = hi THEN ConsolidateStep(consolidated, levels[lo])
    ELSE Consolidate(levels, (lo + hi) \div 2 + 1, hi,
                     Consolidate(levels, lo, (lo + hi) \div 2, consolidated))

\* the loop runs over the sorted levels from index 1 on (index 2 here)
ConsolidateSorted(sorted) == Consolidate(sorted, 2, Len(sorted), <<sorted[1]>>)

consolidateLevels(levels) ==
    IF Len(levels) = 0 THEN levels ELSE ConsolidateSorted(SortFloat64s(levels))

Prices(pivots) == [i \in 1..Len(pivots) |-> RI(pivots[i].price)]

\* the support test with <= for <
IsSupportPivotInclusive(pivot, currentPrice) == pivot.isLow /\ pivot.price <= currentPrice

IsSupportPivot(pivot, currentPrice) == pivot.isLow /\ pivot.price < currentPrice

IsResistancePivot(pivot, currentPrice) ==
    ~IsSupportPivot(pivot, currentPrice) /\ ~pivot.isLow /\ pivot.price > currentPrice

Truncate3(levels) == IF Len(levels) > 3 THEN SubSeq(levels, 1, 3) ELSE levels

DetectSupportResistance(d) ==
    IF Len(d) < 20
    THEN [supportLevels |-> << >>, resistanceLevels |-> << >>]
    ELSE
    LET pivotPoints  == findPivotPoints(d)
        currentPrice == Last(d).c
        supports     == Prices(SelectSeq(pivotPoints,
                                 LAMBDA p : IsSupportPivot(p, currentPrice)))
        resistances  == Prices(SelectSeq(pivotPoints,
                                 LAMBDA p : IsResistancePivot(p, currentPrice)))
    IN  [supportLevels    |->
             Truncate3(Reverse(SortFloat64s(consolidateLevels(supports)))),
         resistanceLevels |->
             Truncate3(SortFloat64s(consolidateLevels(resistances)))]

----------------------------------------------------------------------------
(* patterns.go *)

isBullish(candle) == candle.c > candle.o

isBearish(candle) == candle.c < candle.o

bodySize(candle) == Abs(candle.c - candle.o)

upperShadow(candle) == candle.h - MaxInt(candle.o, candle.c)

lowerShadow(candle) == MinInt(candle.o, candle.c) - candle.l

totalRange(candle) == candle.h - candle.l

bodyMidpoint(candle) == R(candle.o + candle.c, 2)

\* x / y of two integers
Ratio(x, y) == FDiv(RI(x), RI(y))

\* x * (n/d) for an integer x and the decimal literal n/d
Times(x, n, d) == RMul(RI(x), Dec(n, d))

\* the small-body test without its return for r == 0
isSmallBodyUnguarded(candle, threshold) ==
    Lt(Ratio(bodySize(candle), totalRange(candle)), threshold)

isSmallBody(candle, threshold) ==
    LET r == totalRange(candle)
    IN  IF r = 0 THEN TRUE ELSE Lt(Ratio(bodySize(candle), r), threshold)

isInUptrend(d, lb) ==
    IF Len(d) < lb + 1 THEN FALSE
    ELSE At(d, Len(d) - 1).c > At(d, Len(d) - lb - 1).c

isInDowntrend(d, lb) ==
    IF Len(d) < lb + 1 THEN FALSE
    ELSE At(d, Len(d) - 1).c < At(d, Len(d) - lb - 1).c

almostEqual(a, b, tolerance) == Le(RAbs(RSub(a, b)), tolerance)

isDoji(candle) ==
    LET r == totalRange(candle)
    IN  IF r = 0 THEN FALSE ELSE Lt(Ratio(bodySize(candle), r), Dec(1, 10))

isDragonflyDoji(candle) ==
    LET r == totalRange(candle)
    IN  IF r = 0 THEN FALSE
        ELSE /\ Lt(Ratio(bodySize(candle), r), Dec(1, 10))
             /\ Gt(RI(lowerShadow(candle)), Times(r, 7, 10))
             /\ Lt(RI(upperShadow(candle)), Times(r, 1, 10))

isGravestoneDoji(candle) ==
    LET r == totalRange(candle)
    IN  IF r = 0 THEN FALSE
        ELSE /\ Lt(Ratio(bodySize(candle), r), Dec(1, 10))
             /\ Gt(RI(upperShadow(candle)), Times(r, 7, 10))
             /\ Lt(RI(lowerShadow(candle)), Times(r, 1, 10))

isSpinningTop(candle) ==
    LET r     == totalRange(candle)
        body  == bodySize(candle)
        upper == upperShadow(candle)
        lower == lowerShadow(candle)
    IN  IF r = 0 THEN FALSE
        ELSE LET smallBody == Lt(Ratio(body, r), Dec(3, 10)) /\ Gt(Ratio(body, r), Dec(5, 100))
                 hasShadows == Gt(RI(upper), Times(body, 5, 10)) /\ Gt(RI(lower), Times(body, 5, 10))
                 shadowsBalanced == Lt(RI(Abs(upper - lower)), Times(r, 3, 10))
             IN  smallBody /\ hasShadows /\ shadowsBalanced

\* the shared tail of the two Marubozu predicates
MarubozuShape(candle) ==
    LET r == totalRange(candle)
    IN  IF r = 0 THEN FALSE
        ELSE /\ Gt(Ratio(bodySize(candle), r), Dec(95, 100))
             /\ Lt(RI(upperShadow(candle)), Times(r, 3, 100))
             /\ Lt(RI(lowerShadow(candle)), Times(r, 3, 100))

isBullishMarubozu(candle) == IF ~isBullish(candle) THEN FALSE ELSE MarubozuShape(candle)

isBearishMarubozu(candle) == IF ~isBearish(candle) THEN FALSE ELSE MarubozuShape(candle)

\* the divisors of the ratios the range-based predicates form on a candle: each
\* one reads r := totalRange(candle) and returns before dividing if r == 0
RangeDivisors(candle) ==
    IF totalRange(candle) = 0 THEN {} ELSE {totalRange(candle)}

\* the range-based shape predicates applied to one candle
CandleShapes(candle, threshold) ==
    [candle            |-> candle,
     isDoji            |-> isDoji(candle),
     isDragonflyDoji   |-> isDragonflyDoji(candle),
     isGravestoneDoji  |-> isGravestoneDoji(candle),
     isSpinningTop     |-> isSpinningTop(candle),
     isBullishMarubozu |-> isBullishMarubozu(candle),
     isBearishMarubozu |-> isBearishMarubozu(candle),
     isSmallBody       |-> isSmallBody(candle, threshold),
     divisors          |-> RangeDivisors(candle)]

isHammer(candle) ==
    LET body == bodySize(candle)
    IN  IF body = 0 THEN FALSE
        ELSE /\ Gt(RI(lowerShadow(candle)), Times(body, 2, 1))
             /\ Lt(RI(upperShadow(candle)), Times(body, 5, 10))

isShootingStar(candle) ==
    LET body == bodySize(candle)
    IN  IF body = 0 THEN FALSE
        ELSE /\ Gt(RI(upperShadow(candle)), Times(body, 2, 1))
             /\ Lt(RI(lowerShadow(candle)), Times(body, 5, 10))

isInvertedHammer(candle, d) ==
    LET body == bodySize(candle)
    IN  IF body = 0 THEN FALSE
        ELSE /\ Gt(RI(upperShadow(candle)), Times(body, 2, 1))
             /\ Lt(RI(lowerShadow(candle)), Times(body, 5, 10))
             /\ isInDowntrend(d, 5)

isHangingMan(candle, d) ==
    LET body == bodySize(candle)
    IN  IF body = 0 THEN FALSE
        ELSE /\ Gt(RI(lowerShadow(candle)), Times(body, 2, 1))
             /\ Lt(RI(upperShadow(candle)), Times(body, 5, 10))
             /\ isInUptrend(d, 5)

isBullishEngulfing(prev, current) ==
    IF ~isBearish(prev) \/ ~isBullish(current) THEN FALSE
    ELSE /\ current.o <= prev.c
         /\ current.c >= prev.o
         /\ bodySize(current) > bodySize(prev)

isBearishEngulfing(prev, current) ==
    IF ~isBullish(prev) \/ ~isBearish(current) THEN FALSE
    ELSE /\ current.o >= prev.c
         /\ current.c <= prev.o
         /\ bodySize(current) > bodySize(prev)

isPiercingLine(prev, current) ==
    IF ~isBearish(prev) \/ ~isBullish(current) THEN FALSE
    ELSE /\ current.o < prev.c
         /\ Gt(RI(current.c), bodyMidpoint(prev))
         /\ current.c < prev.o

isDarkCloudCover(prev, current) ==
    IF ~isBullish(prev) \/ ~isBearish(current) THEN FALSE
    ELSE /\ current.o > prev.c
         /\ Lt(RI(current.c), bodyMidpoint(prev))
         /\ current.c > prev.o

isBullishHarami(prev, current) ==
    IF ~isBearish(prev) \/ ~isBullish(current) THEN FALSE
    ELSE /\ Lt(RI(bodySize(current)), Times(bodySize(prev), 5, 10))
         /\ current.o > prev.c
         /\ current.c < prev.o

isBearishHarami(prev, current) ==
    IF ~isBullish(prev) \/ ~isBearish(current) THEN FALSE
    ELSE /\ Lt(RI(bodySize(current)), Times(bodySize(prev), 5, 10))
         /\ current.o < prev.c
         /\ current.c > prev.o

isTweezerTop(prev, current) ==
    IF ~isBullish(prev) \/ ~isBearish(current) THEN FALSE
    ELSE LET avgPrice  == R(prev.h + current.h, 2)
             tolerance == RMul(avgPrice, Dec(2, 1000))
         IN  almostEqual(RI(prev.h), RI(current.h), tolerance)

isTweezerBottom(prev, current) ==
    IF ~isBearish(prev) \/ ~isBullish(current) THEN FALSE
    ELSE LET avgPrice  == R(prev.l + current.l, 2)
             tolerance == RMul(avgPrice, Dec(2, 1000))
         IN  almostEqual(RI(prev.l), RI(current.l), tolerance)

isMorningStar(first, second, third) ==
    IF ~isBearish(first) \/ ~isBullish(third) THEN FALSE
    ELSE /\ Lt(RI(bodySize(second)), Times(bodySize(first), 3, 10))
         /\ Gt(RI(third.c), bodyMidpoint(first))

isEveningStar(first, second, third) ==
    IF ~isBullish(first) \/ ~isBearish(third) THEN FALSE
    ELSE /\ Lt(RI(bodySize(second)), Times(bodySize(first), 3, 10))
         /\ Lt(RI(third.c), bodyMidpoint(first))

isThreeWhiteSoldiers(first, second, third) ==
    IF ~isBullish(first) \/ ~isBullish(second) \/ ~isBullish(third) THEN FALSE
    ELSE IF bodySize(first) = 0 \/ bodySize(second) = 0 \/ bodySize(third) = 0 THEN FALSE
    ELSE /\ second.o >= first.o /\ second.o <= first.c
         /\ third.o >= second.o /\ third.o <= second.c
         /\ second.c > first.c /\ third.c > second.c
         /\ Lt(RI(upperShadow(first)), Times(bodySize(first), 3, 10))
         /\ Lt(RI(upperShadow(second)), Times(bodySize(second), 3, 10))
         /\ Lt(RI(upperShadow(third)), Times(bodySize(third), 3, 10))

isThreeBlackCrows(first, second, third) ==
    IF ~isBearish(first) \/ ~isBearish(second) \/ ~isBearish(third) THEN FALSE
    ELSE IF bodySize(first) = 0 \/ bodySize(second) = 0 \/ bodySize(third) = 0 THEN FALSE
    ELSE /\ second.o <= first.o /\ second.o >= first.c
         /\ third.o <= second.o /\ third.o >= second.c
         /\ second.c < first.c /\ third.c < second.c
         /\ Lt(RI(lowerShadow(first)), Times(bodySize(first), 3, 10))
         /\ Lt(RI(lowerShadow(second)), Times(bodySize(second), 3, 10))
         /\ Lt(RI(lowerShadow(third)), Times(bodySize(third), 3, 10))

isThreeInsideUp(first, second, third) ==
    IF ~isBearish(first) \/ ~isBullish(second) \/ ~isBullish(third) THEN FALSE
    ELSE /\ second.o > first.c /\ second.c < first.o
         /\ third.c > first.o

isThreeInsideDown(first, second, third) ==
    IF ~isBullish(first) \/ ~isBearish(second) \/ ~isBearish(third) THEN FALSE
    ELSE /\ second.o < first.c /\ second.c > first.o
         /\ third.c < first.o

isThreeOutsideUp(first, second, third) ==
    IF ~isBearish(first) \/ ~isBullish(second) \/ ~isBullish(third) THEN FALSE
    ELSE /\ second.o <= first.c /\ second.c >= first.o
         /\ third.c > second.c

isThreeOutsideDown(first, second, third) ==
    IF ~isBullish(first) \/ ~isBearish(second) \/ ~isBearish(third) THEN FALSE
    ELSE /\ second.o >= first.c /\ second.c <= first.o
         /\ third.c < second.c

\* models.CandlestickPattern
Pattern(name, type, n, d) == [name |-> name, type |-> type, confidence |-> Dec(n, d)]

\* if cond { patterns = append(patterns, p) }
When(cond, p) == IF cond THEN <<p>> ELSE << >>

\* the Hammer test made on its own, not as the else of the Hanging Man test
HammerFamilyBoth(current, d) ==
    When(isHangingMan(current, d), Pattern("Hanging Man", "bearish", 7, 10))
    \o When(isHammer(current), Pattern("Hammer", "bullish", 75, 100))

\* if isHangingMan(current, data) {...} else if isHammer(current) {...}
HammerFamily(current, d) ==
    IF isHangingMan(current, d) THEN <<Pattern("Hanging Man", "bearish", 7, 10)>>
    ELSE IF isHammer(current) THEN <<Pattern("Hammer", "bullish", 75, 100)>>
    ELSE << >>

DetectCandlestickPatterns(d) ==
    IF Len(d) < 3 THEN << >>
    ELSE
    LET current  == At(d, Len(d) - 1)
        prev     == At(d, Len(d) - 2)
        prevPrev == At(d, Len(d) - 3)
    IN  (IF isDragonflyDoji(current)
            THEN <<Pattern("Dragonfly Doji", "bullish", 75, 100)>>
         ELSE IF isGravestoneDoji(current)
            THEN <<Pattern("Gravestone Doji", "bearish", 75, 100)>>
         ELSE IF isDoji(current)
            THEN <<Pattern("Doji", "neutral", 7, 10)>>
         ELSE << >>)
     \o When(isSpinningTop(current), Pattern("Spinning Top", "neutral", 6, 10))
     \o When(isBullishMarubozu(current), Pattern("Bullish Marubozu", "bullish", 85, 100))
     \o When(isBearishMarubozu(current), Pattern("Bearish Marubozu", "bearish", 85, 100))
     \o HammerFamily(current, d)
     \o (IF isInvertedHammer(current, d)
            THEN <<Pattern("Inverted Hammer", "bullish", 7, 10)>>
         ELSE IF isShootingStar(current)
            THEN <<Pattern("Shooting Star", "bearish", 75, 100)>>
         ELSE << >>)
     \o When(isBullishEngulfing(prev, current), Pattern("Bullish Engulfing", "bullish", 85, 100))
     \o When(isBearishEngulfing(prev, current), Pattern("Bearish Engulfing", "bearish", 85, 100))
     \o When(isPiercingLine(prev, current), Pattern("Piercing Line", "bullish", 75, 100))
     \o When(isDarkCloudCover(prev, current), Pattern("Dark Cloud Cover", "bearish", 75, 100))
     \o When(isBullishHarami(prev, current), Pattern("Bullish Harami", "bullish", 7, 10))
     \o When(isBearishHarami(prev, current), Pattern("Bearish Harami", "bearish", 7, 10))
     \o When(isTweezerTop(prev, current), Pattern("Tweezer Top", "bearish", 7, 10))
     \o When(isTweezerBottom(prev, current), Pattern("Tweezer Bottom", "bullish", 7, 10))
     \o When(isMorningStar(prevPrev, prev, current), Pattern("Morning Star", "bullish", 9, 10))
     \o When(isEveningStar(prevPrev, prev, current), Pattern("Evening Star", "bearish", 9, 10))
     \o When(isThreeWhiteSoldiers(prevPrev, prev, current),
             Pattern("Three White Soldiers", "bullish", 9, 10))
     \o When(isThreeBlackCrows(prevPrev, prev, current),
             Pattern("Three Black Crows", "bearish", 9, 10))
     \o When(isThreeInsideUp(prevPrev, prev, current), Pattern("Three Inside Up", "bullish", 85, 100))
     \o When(isThreeInsideDown(prevPrev, prev, current),
             Pattern("Three Inside Down", "bearish", 85, 100))
     \o When(isThreeOutsideUp(prevPrev, prev, current),
             Pattern("Three Outside Up", "bullish", 85, 100))
     \o When(isThreeOutsideDown(prevPrev, prev, current),
             Pattern("Three Outside Down", "bearish", 85, 100))

\* DetectAllTimeframePatterns: the daily list is the Pattern Detector's output
\* on the Series; the recommendation reads only patterns.Daily
DetectAllTimeframePatterns(d) == [daily |-> DetectCandlestickPatterns(d)]

----------------------------------------------------------------------------
(* Wyckoff analysis *)

\* models.PriceRange
PriceRange(lo, hi) == [min |-> lo, max |-> hi]

ZeroRange == PriceRange(RI(0), RI(0))

\* models.WyckoffEvent; the date of a bar is its position in the Series
WyckoffEvent(name, type, idx, candle, confidence) ==
    [name |-> name, type |-> type, date |-> idx, price |-> RI(candle.c),
     volume |-> candle.v, confidence |-> confidence]

calculateAverageVolume(d, lb) ==
    LET n  == Len(d)
        lb2 == IF n < lb THEN n ELSE lb
        total == SumF([i \in 1..n |-> d[i].v], n - lb2 + 1, n)
    IN  FDiv(RI(total), RI(lb2))

calculateAverageRange(d, idx, lb) ==
    LET startIdx == MaxInt(0, idx - lb)
        count    == idx - startIdx
    IN  IF count = 0 THEN RI(1)
        ELSE FDiv(RI(SumF([i \in 1..Len(d) |-> d[i].h - d[i].l], startIdx + 1, idx)),
                  RI(count))

averageFloat64(values) ==
    IF Len(values) = 0 THEN RI(0)
    ELSE FDiv(RI(SumF(values, 1, Len(values))), RI(Len(values)))

maxHigh(d) ==
    IF Len(d) = 0 THEN 0
    ELSE CHOOSE m \in {d[i].h : i \in 1..Len(d)} : \A i \in 1..Len(d) : d[i].h <= m

minLow(d) ==
    IF Len(d) = 0 THEN 0
    ELSE CHOOSE m \in {d[i].l : i \in 1..Len(d)} : \A i \in 1..Len(d) : d[i].l >= m

calculateConfidence(volumeRatio, rangeRatio, baseConfidence) ==
    LET b1 == IF Gt(volumeRatio, Dec(25, 10)) THEN Dec(1, 10) ELSE RI(0)
        b2 == IF Gt(rangeRatio, RI(2)) THEN Dec(5, 100) ELSE RI(0)
    IN  RMin(RAdd(baseConfidence, RAdd(b1, b2)), Dec(95, 100))

\* the bars the swing scan visits: for i := 2; i < len(recentData)-2; i++
SwingRange(n) == 2..(n - 3)

isSwingHigh(rd, i) ==
    /\ At(rd, i).h > At(rd, i - 1).h
    /\ At(rd, i).h > At(rd, i - 2).h
    /\ At(rd, i).h > At(rd, i + 1).h
    /\ At(rd, i).h > At(rd, i + 2).h

isSwingLow(rd, i) ==
    /\ At(rd, i).l < At(rd, i - 1).l
    /\ At(rd, i).l < At(rd, i - 2).l
    /\ At(rd, i).l < At(rd, i + 1).l
    /\ At(rd, i).l < At(rd, i + 2).l

RECURSIVE SwingHighs(_, _, _)
\* the highs the iterations lo..hi of the swing scan append, first half then second
SwingHighs(rd, lo, hi) ==
    IF lo > hi THEN << >>
    ELSE IF lo = hi THEN (IF isSwingHigh(rd, lo) THEN <<At(rd, lo).h>> ELSE << >>)
    ELSE SwingHighs(rd, lo, (lo + hi) \div 2) \o SwingHighs(rd, (lo + hi) \div 2 + 1, hi)

RECURSIVE SwingLows(_, _, _)
\* the lows the iterations lo..hi of the swing scan append
SwingLows(rd, lo, hi) ==
    IF lo > hi THEN << >>
    ELSE IF lo = hi THEN (IF isSwingLow(rd, lo) THEN <<At(rd, lo).l>> ELSE << >>)
    ELSE SwingLows(rd, lo, (lo + hi) \div 2) \o SwingLows(rd, (lo + hi) \div 2 + 1, hi)

detectTradingRange(d) ==
    IF Len(d) < 20 THEN ZeroRange
    ELSE
    LET lb         == MinInt(60, Len(d))
        recentData == Slice(d, Len(d) - lb, Len(d))
        highs      == SwingHighs(recentData, 2, lb - 3)
        lows       == SwingLows(recentData, 2, lb - 3)
        rangeHigh  == IF Len(highs) > 0 THEN averageFloat64(highs) ELSE RI(maxHigh(recentData))
        rangeLow   == IF Len(lows) > 0 THEN averageFloat64(lows) ELSE RI(minLow(recentData))
    IN  PriceRange(rangeLow, rangeHigh)

\* (current.Close - current.Low) / priceRange, 0.5 for a bar with no range
ClimaxClosePosition(current) ==
    IF current.h - current.l = 0 THEN Dec(5, 10)
    ELSE Ratio(current.c - current.l, current.h - current.l)

detectSellingClimax(d, idx, avgVolume, tr) ==
    IF idx < 3 \/ idx >= Len(d) - 1 THEN << >>
    ELSE
    LET current     == At(d, idx)
        prev        == At(d, idx - 1)
        volumeRatio == FDiv(RI(current.v), avgVolume)
        priceRange  == current.h - current.l
        avgRange    == calculateAverageRange(d, idx, 10)
        rangeRatio  == FDiv(RI(priceRange), avgRange)
        closePosition == ClimaxClosePosition(current)
        nearSupport == Le(RI(current.l), RMul(tr.min, Dec(102, 100)))
        hasReversal == IF idx < Len(d) - 1 THEN At(d, idx + 1).c > current.c ELSE FALSE
        inDowntrend == prev.c < At(d, MaxInt(0, idx - 5)).c
    IN  IF /\ Gt(volumeRatio, RI(2)) /\ Gt(rangeRatio, Dec(15, 10))
           /\ Lt(closePosition, Dec(3, 10))
           /\ nearSupport /\ hasReversal /\ inDowntrend
        THEN <<WyckoffEvent("Selling Climax", "accumulation", idx, current,
                            calculateConfidence(volumeRatio, rangeRatio, Dec(8, 10)))>>
        ELSE << >>

detectBuyingClimax(d, idx, avgVolume, tr) ==
    IF idx < 3 \/ idx >= Len(d) - 1 THEN << >>
    ELSE
    LET current     == At(d, idx)
        prev        == At(d, idx - 1)
        volumeRatio == FDiv(RI(current.v), avgVolume)
        priceRange  == current.h - current.l
        avgRange    == calculateAverageRange(d, idx, 10)
        rangeRatio  == FDiv(RI(priceRange), avgRange)
        closePosition == ClimaxClosePosition(current)
        nearResistance == Ge(RI(current.h), RMul(tr.max, Dec(98, 100)))
        hasReversal == IF idx < Len(d) - 1 THEN At(d, idx + 1).c < current.c ELSE FALSE
        inUptrend   == prev.c > At(d, MaxInt(0, idx - 5)).c
    IN  IF /\ Gt(volumeRatio, RI(2)) /\ Gt(rangeRatio, Dec(15, 10))
           /\ Gt(closePosition, Dec(7, 10))
           /\ nearResistance /\ hasReversal /\ inUptrend
        THEN <<WyckoffEvent("Buying Climax", "distribution", idx, current,
                            calculateConfidence(volumeRatio, rangeRatio, Dec(8, 10)))>>
        ELSE << >>

\* a Spring or Upthrust confidence that starts from 0.6
ThrustConfidenceFrom06(current, avgVolume) ==
    IF Gt(FDiv(RI(current.v), avgVolume), Dec(15, 10)) THEN Dec(85, 100) ELSE Dec(6, 10)

\* confidence := 0.7; if volumeRatio > 1.5 { confidence = 0.85 }
ThrustConfidence(current, avgVolume) ==
    IF Gt(FDiv(RI(current.v), avgVolume), Dec(15, 10)) THEN Dec(85, 100) ELSE Dec(7, 10)

detectSpring(current, prev, next, tr, avgVolume, idx) ==
    LET brokeSupport == Lt(RI(current.l), tr.min)
        closedAbove  == Gt(RI(current.c), RMul(tr.min, Dec(99, 100)))
        reversedUp   == next.c > current.c /\ next.c > current.o
        tooDeep      == /\ Gt(tr.min, RI(0))
                        /\ Gt(FDiv(RSub(tr.min, RI(current.l)), tr.min), Dec(3, 100))
    IN  IF tooDeep THEN << >>
        ELSE IF brokeSupport /\ closedAbove /\ reversedUp
        THEN <<WyckoffEvent("Spring", "accumulation", idx, current,
                            ThrustConfidence(current, avgVolume))>>
        ELSE << >>

detectUpthrust(current, prev, next, tr, avgVolume, idx) ==
    LET brokeResistance == Gt(RI(current.h), tr.max)
        closedBelow  == Lt(RI(current.c), RMul(tr.max, Dec(101, 100)))
        reversedDown == next.c < current.c /\ next.c < current.o
        tooDeep      == /\ Gt(tr.max, RI(0))
                        /\ Gt(FDiv(RSub(RI(current.h), tr.max), tr.max), Dec(3, 100))
    IN  IF tooDeep THEN << >>
        ELSE IF brokeResistance /\ closedBelow /\ reversedDown
        THEN <<WyckoffEvent("Upthrust", "distribution", idx, current,
                            ThrustConfidence(current, avgVolume))>>
        ELSE << >>

detectSignOfStrength(d, idx, avgVolume, tr) ==
    IF idx < 3 \/ idx >= Len(d) THEN << >>
    ELSE
    LET current    == At(d, idx)
        priceRange == current.h - current.l
    IN  IF priceRange = 0 THEN << >>
        ELSE
        LET closePosition == Ratio(current.c - current.l, priceRange)
            volumeRatio   == FDiv(RI(current.v), avgVolume)
            avgRange      == calculateAverageRange(d, idx, 10)
            rangeRatio    == FDiv(RI(priceRange), avgRange)
            breakingUp    == Gt(RI(current.c), RMul(tr.max, Dec(98, 100)))
        IN  IF /\ current.c > current.o /\ Gt(closePosition, Dec(7, 10))
               /\ Gt(volumeRatio, Dec(15, 10)) /\ Gt(rangeRatio, Dec(13, 10))
               /\ breakingUp
            THEN <<WyckoffEvent("Sign of Strength", "accumulation", idx, current,
                                calculateConfidence(volumeRatio, rangeRatio, Dec(75, 100)))>>
            ELSE << >>

detectSignOfWeakness(d, idx, avgVolume, tr) ==
    IF idx < 3 \/ idx >= Len(d) THEN << >>
    ELSE
    LET current    == At(d, idx)
        priceRange == current.h - current.l
    IN  IF priceRange = 0 THEN << >>
        ELSE
        LET closePosition == Ratio(current.c - current.l, priceRange)
            volumeRatio   == FDiv(RI(current.v), avgVolume)
            avgRange      == calculateAverageRange(d, idx, 10)
            rangeRatio    == FDiv(RI(priceRange), avgRange)
            breakingDown  == Lt(RI(current.c), RMul(tr.min, Dec(102, 100)))
        IN  IF /\ current.c < current.o /\ Lt(closePosition, Dec(3, 10))
               /\ Gt(volumeRatio, Dec(15, 10)) /\ Gt(rangeRatio, Dec(13, 10))
               /\ breakingDown
            THEN <<WyckoffEvent("Sign of Weakness", "distribution", idx, current,
                                calculateConfidence(volumeRatio, rangeRatio, Dec(75, 100)))>>
            ELSE << >>

\* the bars the event scan visits: for i := 5; i < len(data)-2; i++
EventRange(n) == 5..(n - 3)

\* the events one iteration of the scan appends, in the order it tests them
EventsAt(d, i, avgVolume, tr) ==
    detectSellingClimax(d, i, avgVolume, tr)
    \o detectBuyingClimax(d, i, avgVolume, tr)
    \o detectSpring(At(d, i), At(d, i - 1), At(d, i + 1), tr, avgVolume, i)
    \o detectUpthrust(At(d, i), At(d, i - 1), At(d, i + 1), tr, avgVolume, i)
    \o detectSignOfStrength(d, i, avgVolume, tr)
    \o detectSignOfWeakness(d, i, avgVolume, tr)

RECURSIVE EventsFrom(_, _, _, _, _)
\* the events the iterations lo..hi of the scan append, first half then second
EventsFrom(d, lo, hi, avgVolume, tr) ==
    IF lo > hi THEN << >>
    ELSE IF lo = hi THEN EventsAt(d, lo, avgVolume, tr)
    ELSE EventsFrom(d, lo, (lo + hi) \div 2, avgVolume, tr)
         \o EventsFrom(d, (lo + hi) \div 2 + 1, hi, avgVolume, tr)

detectWyckoffEvents(d, tr) ==
    IF Len(d) < 10 THEN << >>
    ELSE EventsFrom(d, 5, Len(d) - 3, calculateAverageVolume(d, 20), tr)

\* the number of events of one type
CountType(events, type) == Cardinality({i \in 1..Len(events) : events[i].type = type})

\* a range-bound phase that is left undetermined
RangeBoundPhaseUnknown(pricePosition) == [phase |-> "unknown", confidence |-> Dec(3, 10)]

\* if !isUptrending && !isDowntrending { ... }: the half of the range decides
RangeBoundPhase(pricePosition) ==
    IF Gt(pricePosition, Dec(5, 10))
    THEN [phase |-> "distribution", confidence |-> Dec(5, 10)]
    ELSE [phase |-> "accumulation", confidence |-> Dec(5, 10)]

determinePhase(d, events, tr) ==
    IF Len(d) < 20 THEN [phase |-> "unknown", confidence |-> RI(0)]
    ELSE
    LET currentPrice == At(d, Len(d) - 1).c
        recentData   == Slice(d, Len(d) - 20, Len(d))
        accumulationEvents == CountType(events, "accumulation")
        distributionEvents == CountType(events, "distribution")
        rangeSize0   == RSub(tr.max, tr.min)
        rangeSize    == IF Eq(rangeSize0, RI(0)) THEN RI(1) ELSE rangeSize0
        pricePosition == FDiv(RSub(RI(currentPrice), tr.min), rangeSize)
        priceChange  == Ratio(At(recentData, Len(recentData) - 1).c - At(recentData, 0).c,
                              At(recentData, 0).c)
        isUptrending   == Gt(priceChange, Dec(5, 100))
        isDowntrending == Lt(priceChange, Dec(-5, 100))
    IN  IF isUptrending /\ Gt(pricePosition, Dec(8, 10))
        THEN [phase |-> "markup",
              confidence |-> RAdd(Dec(7, 10), RMul(RI(accumulationEvents), Dec(5, 100)))]
        ELSE IF isDowntrending /\ Lt(pricePosition, Dec(2, 10))
        THEN [phase |-> "markdown",
              confidence |-> RAdd(Dec(7, 10), RMul(RI(distributionEvents), Dec(5, 100)))]
        ELSE IF accumulationEvents > distributionEvents /\ Lt(pricePosition, Dec(5, 10))
        THEN [phase |-> "accumulation",
              confidence |-> RMin(RAdd(Dec(6, 10), RMul(RI(accumulationEvents), Dec(1, 10))),
                                  Dec(95, 100))]
        ELSE IF distributionEvents > accumulationEvents /\ Gt(pricePosition, Dec(5, 10))
        THEN [phase |-> "distribution",
              confidence |-> RMin(RAdd(Dec(6, 10), RMul(RI(distributionEvents), Dec(1, 10))),
                                  Dec(95, 100))]
        ELSE IF ~isUptrending /\ ~isDowntrending
        THEN RangeBoundPhase(pricePosition)
        ELSE [phase |-> "unknown", confidence |-> Dec(3, 10)]

\* analyzeEffortVsResult counting an equal volume as a rising one
analyzeEffortVsResultOnEqualVolume(d) ==
    IF Len(d) < 10 THEN "unknown"
    ELSE
    LET recentData == Slice(d, Len(d) - 10, Len(d))
        vol        == [i \in 1..Len(recentData) |-> recentData[i].v]
        firstHalfVolume  == SumF(vol, 1, 5)
        secondHalfVolume == SumF(vol, 6, 10)
        volumeIncreasing == secondHalfVolume >= firstHalfVolume
        priceChange == At(recentData, Len(recentData) - 1).c - At(recentData, 0).c
        avgRange    == calculateAverageRange(d, Len(d) - 1, 10)
        normalizedPriceChange == FDiv(RI(Abs(priceChange)), avgRange)
    IN  IF volumeIncreasing /\ Lt(normalizedPriceChange, RI(2)) THEN "diverging"
        ELSE IF volumeIncreasing /\ Ge(normalizedPriceChange, RI(2)) THEN "confirming"
        ELSE IF ~volumeIncreasing /\ Lt(normalizedPriceChange, RI(2)) THEN "confirming"
        ELSE IF ~volumeIncreasing /\ Ge(normalizedPriceChange, RI(2)) THEN "diverging"
        ELSE "unknown"

analyzeEffortVsResult(d) ==
    IF Len(d) < 10 THEN "unknown"
    ELSE
    LET recentData == Slice(d, Len(d) - 10, Len(d))
        vol        == [i \in 1..Len(recentData) |-> recentData[i].v]
        firstHalfVolume  == SumF(vol, 1, 5)
        secondHalfVolume == SumF(vol, 6, 10)
        volumeIncreasing == secondHalfVolume > firstHalfVolume
        priceChange == At(recentData, Len(recentData) - 1).c - At(recentData, 0).c
        avgRange    == calculateAverageRange(d, Len(d) - 1, 10)
        normalizedPriceChange == FDiv(RI(Abs(priceChange)), avgRange)
    IN  IF volumeIncreasing /\ Lt(normalizedPriceChange, RI(2)) THEN "diverging"
        ELSE IF volumeIncreasing /\ Ge(normalizedPriceChange, RI(2)) THEN "confirming"
        ELSE IF ~volumeIncreasing /\ Lt(normalizedPriceChange, RI(2)) THEN "confirming"
        ELSE IF ~volumeIncreasing /\ Ge(normalizedPriceChange, RI(2)) THEN "diverging"
        ELSE "unknown"

\* event.Date.After(recentDate) || event.Date.Equal(recentDate)
IsRecent(event, recentDate) == event.date >= recentDate

\* what one recent event adds to the Wyckoff score
WyckoffEventScore(event) ==
    CASE event.name = "Spring"           -> RMul(Dec(25, 10), event.confidence)
      [] event.name = "Sign of Strength" -> RMul(RI(2), event.confidence)
      [] event.name = "Selling Climax"   -> RMul(Dec(15, 10), event.confidence)
      [] event.name = "Upthrust"         -> RNeg(RMul(Dec(25, 10), event.confidence))
      [] event.name = "Sign of Weakness" -> RNeg(RMul(RI(2), event.confidence))
      [] event.name = "Buying Climax"    -> RNeg(RMul(Dec(15, 10), event.confidence))
      [] OTHER -> RI(0)

RECURSIVE RecentEventsScore(_, _, _, _)
\* what the events lo..hi add to the Wyckoff score, first half then second
RecentEventsScore(events, lo, hi, recentDate) ==
    IF lo > hi THEN RI(0)
    ELSE IF lo = hi
    THEN (IF IsRecent(events[lo], recentDate) THEN WyckoffEventScore(events[lo]) ELSE RI(0))
    ELSE RAdd(RecentEventsScore(events, lo, (lo + hi) \div 2, recentDate),
              RecentEventsScore(events, (lo + hi) \div 2 + 1, hi, recentDate))

\* the labelling with the Synthesizer's thresholds
WyckoffLabelAt03(normalizedScore) ==
    IF Gt(normalizedScore, Dec(3, 10)) THEN "buy"
    ELSE IF Lt(normalizedScore, Dec(-3, 10)) THEN "sell"
    ELSE "hold"

\* normalizedScore > 0.4 is buy, < -0.4 is sell
WyckoffLabel(normalizedScore) ==
    IF Gt(normalizedScore, Dec(4, 10)) THEN "buy"
    ELSE IF Lt(normalizedScore, Dec(-4, 10)) THEN "sell"
    ELSE "hold"

generateWyckoffRecommendation(d, phase, phaseConfidence, events, tradingRange, effortResult) ==
    IF Len(d) = 0 \/ phase = "insufficient_data" \/ phase = "unknown"
    THEN [recommendation |-> "hold", score |-> RI(0)]
    ELSE
    LET currentPrice == At(d, Len(d) - 1).c
        phaseScore ==
            CASE phase = "accumulation" -> RMul(RI(3), phaseConfidence)
              [] phase = "markup"       -> RMul(Dec(15, 10), phaseConfidence)
              [] phase = "distribution" -> RNeg(RMul(RI(3), phaseConfidence))
              [] phase = "markdown"     -> RNeg(RMul(Dec(15, 10), phaseConfidence))
              [] OTHER -> RI(0)
        rangeSize == RSub(tradingRange.max, tradingRange.min)
        pricePosition == FDiv(RSub(RI(currentPrice), tradingRange.min), rangeSize)
        positionScore ==
            IF Gt(rangeSize, RI(0))
            THEN (IF Lt(pricePosition, Dec(3, 10)) THEN RI(2)
                  ELSE IF Gt(pricePosition, Dec(7, 10)) THEN RI(-2)
                  ELSE RI(0))
            ELSE RI(0)
        recentThreshold == 10
        eventScore ==
            IF Len(d) >= recentThreshold
            THEN RecentEventsScore(events, 1, Len(events), Len(d) - recentThreshold)
            ELSE RI(0)
        effortScore ==
            IF effortResult = "diverging"
            THEN (IF Len(d) >= 10
                  THEN (IF currentPrice > At(d, Len(d) - 10).c THEN Dec(-15, 10) ELSE Dec(15, 10))
                  ELSE RI(0))
            ELSE IF effortResult = "confirming" THEN Dec(5, 10)
            ELSE RI(0)
        score == RAdd(RAdd(phaseScore, positionScore), RAdd(eventScore, effortScore))
        normalizedScore == RMax(RI(-1), RMin(RI(1), FDiv(score, RI(9))))
    IN  [recommendation |-> WyckoffLabel(normalizedScore), score |-> normalizedScore]

\* one recent event's adjustment of the buy and sell zones
AdjustZones(z, event, rangeSize) ==
    CASE event.name = "Spring" ->
            LET springLow == RMul(event.price, Dec(98, 100))
            IN  IF Lt(springLow, z.buyZone.min)
                THEN [z EXCEPT !.buyZone.min = springLow] ELSE z
      [] event.name = "Upthrust" ->
            LET upthrustHigh == RMul(event.price, Dec(102, 100))
            IN  IF Gt(upthrustHigh, z.sellZone.max)
                THEN [z EXCEPT !.sellZone.max = upthrustHigh] ELSE z
      [] event.name = "Selling Climax" ->
            [z EXCEPT !.buyZone.max = RAdd(z.buyZone.max, RMul(rangeSize, Dec(10, 100)))]
      [] event.name = "Buying Climax" ->
            [z EXCEPT !.sellZone.min = RSub(z.sellZone.min, RMul(rangeSize, Dec(10, 100)))]
      [] OTHER -> z

RECURSIVE ZonesFrom(_, _, _, _, _, _)
\* the zones after the events lo..hi have adjusted z, first half then second
ZonesFrom(z, events, lo, hi, recentDate, rangeSize) ==
    IF lo > hi \/ DOMAIN z = {} THEN z
    ELSE IF lo = hi
    THEN (IF IsRecent(events[lo], recentDate) THEN AdjustZones(z, events[lo], rangeSize)
          ELSE z)
    ELSE ZonesFrom(ZonesFrom(z, events, lo, (lo + hi) \div 2, recentDate, rangeSize),
                   events, (lo + hi) \div 2 + 1, hi, recentDate, rangeSize)

\* the zones without the event adjustments
calculateWyckoffZonesUnadjusted(d, tradingRange, events, phase) ==
    LET rangeSize == RSub(tradingRange.max, tradingRange.min)
        edge(base, n) == RAdd(base, RMul(rangeSize, Dec(n, 100)))
    IN  [buyZone   |-> PriceRange(edge(tradingRange.min, -3), edge(tradingRange.min, 15)),
         accumZone |-> PriceRange(edge(tradingRange.min, 15), edge(tradingRange.min, 35)),
         distZone  |-> PriceRange(edge(tradingRange.max, -35), edge(tradingRange.max, -15)),
         sellZone  |-> PriceRange(edge(tradingRange.max, -15), edge(tradingRange.max, 3))]

calculateWyckoffZones(d, tradingRange, events, phase) ==
    LET rangeSize == RSub(tradingRange.max, tradingRange.min)
        z0 == [buyZone   |-> PriceRange(RSub(tradingRange.min, RMul(rangeSize, Dec(3, 100))),
                                        RAdd(tradingRange.min, RMul(rangeSize, Dec(15, 100)))),
               accumZone |-> PriceRange(RAdd(tradingRange.min, RMul(rangeSize, Dec(15, 100))),
                                        RAdd(tradingRange.min, RMul(rangeSize, Dec(35, 100)))),
               distZone  |-> PriceRange(RSub(tradingRange.max, RMul(rangeSize, Dec(35, 100))),
                                        RSub(tradingRange.max, RMul(rangeSize, Dec(15, 100)))),
               sellZone  |-> PriceRange(RSub(tradingRange.max, RMul(rangeSize, Dec(15, 100))),
                                        RAdd(tradingRange.max, RMul(rangeSize, Dec(3, 100))))]
    IN  IF Len(d) >= 10 THEN ZonesFrom(z0, events, 1, Len(events), Len(d) - 10, rangeSize) ELSE z0

\* the guard with <= for <
WyckoffTooShortInclusive(n) == n <= 30

\* if len(data) < 30 { return insufficient_data }
WyckoffTooShort(n) == n < 30

\* models.WyckoffAnalysis
\* the returned models.WyckoffAnalysis
WyckoffAnalysis(ph, events, tradingRange, effortResult, rec, z) ==
    [phase |-> ph.phase, phaseConfidence |-> ph.confidence, events |-> events,
     tradingRange |-> tradingRange, effortResult |-> effortResult,
     recommendation |-> rec.recommendation, recommendationScore |-> rec.score,
     buyZone |-> z.buyZone, accumulationZone |-> z.accumZone,
     distributionZone |-> z.distZone, sellZone |-> z.sellZone]

\* AnalyzeWyckoff from the phase on
WyckoffFromPhase(d, tradingRange, events, ph, effortResult) ==
    WyckoffAnalysis(ph, events, tradingRange, effortResult,
                    generateWyckoffRecommendation(d, ph.phase, ph.confidence, events,
                                                  tradingRange, effortResult),
                    calculateWyckoffZones(d, tradingRange, events, ph.phase))

\* AnalyzeWyckoff from the detected events on
WyckoffFromEvents(d, tradingRange, events) ==
    WyckoffFromPhase(d, tradingRange, events, determinePhase(d, events, tradingRange),
                     analyzeEffortVsResult(d))

\* AnalyzeWyckoff from the trading range on
WyckoffFromRange(d, tradingRange) ==
    WyckoffFromEvents(d, tradingRange, detectWyckoffEvents(d, tradingRange))

AnalyzeWyckoff(d) ==
    IF WyckoffTooShort(Len(d))
    THEN [phase |-> "insufficient_data", phaseConfidence |-> RI(0), events |-> << >>,
          tradingRange |-> ZeroRange, effortResult |-> "unknown",
          recommendation |-> "hold", recommendationScore |-> RI(0),
          buyZone |-> ZeroRange, accumulationZone |-> ZeroRange,
          distributionZone |-> ZeroRange, sellZone |-> ZeroRange]
    ELSE WyckoffFromRange(d, detectTradingRange(d))

\* the divisors of the divisions AnalyzeWyckoff performs without a test of the
\* divisor: the average volume and the average range in the event detectors, the
\* average range in analyzeEffortVsResult
AnalyzeWyckoffDivisors(d) ==
    IF WyckoffTooShort(Len(d)) THEN {}
    ELSE {calculateAverageVolume(d, 20)}
         \cup {calculateAverageRange(d, idx, 10) : idx \in EventRange(Len(d))}
         \cup {calculateAverageRange(d, Len(d) - 1, 10)}

----------------------------------------------------------------------------
(* The Synthesizer: analyzer.go, and its Wyckoff-including version in stock.go *)

RECURSIVE PatternScore(_, _, _)
\* for _, pattern := range patterns.Daily
PatternScore(daily, lo, hi) ==
    IF lo > hi THEN RI(0)
    ELSE IF lo = hi
    THEN (IF daily[lo].type = "bullish" THEN daily[lo].confidence
          ELSE IF daily[lo].type = "bearish" THEN RNeg(daily[lo].confidence)
          ELSE RI(0))
    ELSE RAdd(PatternScore(daily, lo, (lo + hi) \div 2),
              PatternScore(daily, (lo + hi) \div 2 + 1, hi))

\* the score before the Wyckoff terms and before normalisation; the two
\* versions of generateRecommendation compute it with the same statements
SignalScore(currentPrice, indicators, patterns, sr, trend) ==
    LET rsiScore ==
            IF Lt(indicators.rsi, RI(30)) THEN RI(2)
            ELSE IF Lt(indicators.rsi, RI(40)) THEN RI(1)
            ELSE IF Gt(indicators.rsi, RI(70)) THEN RI(-2)
            ELSE IF Gt(indicators.rsi, RI(60)) THEN RI(-1)
            ELSE RI(0)
        macdScore ==
            IF Gt(indicators.macd, indicators.macdSignal) THEN Dec(15, 10) ELSE Dec(-15, 10)
        maScore ==
            IF Gt(currentPrice, indicators.sma20) /\ Gt(indicators.sma20, indicators.sma50)
            THEN Dec(15, 10)
            ELSE IF Lt(currentPrice, indicators.sma20) /\ Lt(indicators.sma20, indicators.sma50)
            THEN Dec(-15, 10)
            ELSE RI(0)
        bollingerScore ==
            IF Lt(currentPrice, indicators.bollingerLower) THEN RI(1)
            ELSE IF Gt(currentPrice, indicators.bollingerUpper) THEN RI(-1)
            ELSE RI(0)
        trendScore ==
            IF trend.trend = "uptrend" THEN RMul(trend.strength, RI(2))
            ELSE IF trend.trend = "downtrend" THEN RNeg(RMul(trend.strength, RI(2)))
            ELSE RI(0)
        supportScore ==
            IF Len(sr.supportLevels) > 0
            THEN (IF Lt(FDiv(RSub(currentPrice, sr.supportLevels[1]), currentPrice), Dec(2, 100))
                  THEN RI(1) ELSE RI(0))
            ELSE RI(0)
        resistanceScore ==
            IF Len(sr.resistanceLevels) > 0
            THEN (IF Lt(FDiv(RSub(sr.resistanceLevels[1], currentPrice), currentPrice),
                        Dec(2, 100))
                  THEN RI(-1) ELSE RI(0))
            ELSE RI(0)
    IN  RAdd(RAdd(RAdd(rsiScore, macdScore), RAdd(maScore, bollingerScore)),
             RAdd(RAdd(PatternScore(patterns.daily, 1, Len(patterns.daily)), trendScore),
                  RAdd(supportScore, resistanceScore)))

\* normalizedScore := math.Max(-1, math.Min(1, score/10))
NormalizeScore(score) == RMax(RI(-1), RMin(RI(1), FDiv(score, RI(10))))

\* the labelling with the Wyckoff thresholds
RecommendationLabelAt04(normalizedScore) ==
    IF Gt(normalizedScore, Dec(4, 10)) THEN "buy"
    ELSE IF Lt(normalizedScore, Dec(-4, 10)) THEN "sell"
    ELSE "hold"

\* normalizedScore > 0.3 is buy, < -0.3 is sell
RecommendationLabel(normalizedScore) ==
    IF Gt(normalizedScore, Dec(3, 10)) THEN "buy"
    ELSE IF Lt(normalizedScore, Dec(-3, 10)) THEN "sell"
    ELSE "hold"

\* analyzer.go
generateRecommendation(currentPrice, indicators, patterns, sr, trend) ==
    LET normalizedScore ==
            NormalizeScore(SignalScore(currentPrice, indicators, patterns, sr, trend))
    IN  [recommendation |-> RecommendationLabel(normalizedScore), score |-> normalizedScore]

RECURSIVE WyckoffEventsScore(_, _, _)
\* for _, event := range wyckoff.Events
WyckoffEventsScore(events, lo, hi) ==
    IF lo > hi THEN RI(0)
    ELSE IF lo = hi
    THEN (IF events[lo].name \in {"Spring", "Sign of Strength", "Selling Climax"}
          THEN RMul(Dec(75, 100), events[lo].confidence)
          ELSE IF events[lo].name \in {"Upthrust", "Sign of Weakness", "Buying Climax"}
          THEN RNeg(RMul(Dec(75, 100), events[lo].confidence))
          ELSE RI(0))
    ELSE RAdd(WyckoffEventsScore(events, lo, (lo + hi) \div 2),
              WyckoffEventsScore(events, (lo + hi) \div 2 + 1, hi))

\* generateRecommendation of stock.go with the effort-versus-result term also
\* applied to an effortResult of "unknown"
generateRecommendationWyckoffOnUnknown(currentPrice, indicators, patterns, sr, trend, wyck) ==
    LET phaseScore ==
            CASE wyck.phase = "accumulation" -> wyck.phaseConfidence
              [] wyck.phase = "markup"       -> RMul(Dec(75, 100), wyck.phaseConfidence)
              [] wyck.phase = "distribution" -> RNeg(wyck.phaseConfidence)
              [] wyck.phase = "markdown"     -> RNeg(RMul(Dec(75, 100), wyck.phaseConfidence))
              [] OTHER -> RI(0)
        effortScore ==
            IF wyck.effortResult \in {"diverging", "unknown"}
            THEN (IF trend.trend = "uptrend" THEN Dec(-25, 100)
                  ELSE IF trend.trend = "downtrend" THEN Dec(25, 100)
                  ELSE RI(0))
            ELSE RI(0)
        score == RAdd(RAdd(SignalScore(currentPrice, indicators, patterns, sr, trend),
                           phaseScore),
                      RAdd(WyckoffEventsScore(wyck.events, 1, Len(wyck.events)), effortScore))
        normalizedScore == NormalizeScore(score)
    IN  [recommendation |-> RecommendationLabel(normalizedScore), score |-> normalizedScore]

\* stock.go
generateRecommendationWyckoff(currentPrice, indicators, patterns, sr, trend, wyck) ==
    LET phaseScore ==
            CASE wyck.phase = "accumulation" -> wyck.phaseConfidence
              [] wyck.phase = "markup"       -> RMul(Dec(75, 100), wyck.phaseConfidence)
              [] wyck.phase = "distribution" -> RNeg(wyck.phaseConfidence)
              [] wyck.phase = "markdown"     -> RNeg(RMul(Dec(75, 100), wyck.phaseConfidence))
              [] OTHER -> RI(0)
        effortScore ==
            IF wyck.effortResult = "diverging"
            THEN (IF trend.trend = "uptrend" THEN Dec(-25, 100)
                  ELSE IF trend.trend = "downtrend" THEN Dec(25, 100)
                  ELSE RI(0))
            ELSE RI(0)
        score == RAdd(RAdd(SignalScore(currentPrice, indicators, patterns, sr, trend),
                           phaseScore),
                      RAdd(WyckoffEventsScore(wyck.events, 1, Len(wyck.events)), effortScore))
        normalizedScore == NormalizeScore(score)
    IN  [recommendation |-> RecommendationLabel(normalizedScore), score |-> normalizedScore]

calculatePriceRanges(currentPrice, indicators, sr, trend) ==
    LET buyMin == IF Len(sr.supportLevels) > 0 THEN sr.supportLevels[1]
                  ELSE RMin(indicators.bollingerLower, RMul(currentPrice, Dec(95, 100)))
        buyMax == IF Len(sr.supportLevels) > 1 THEN sr.supportLevels[1]
                  ELSE RMul(currentPrice, Dec(98, 100))
        sellMin0 == IF Len(sr.resistanceLevels) > 0 THEN sr.resistanceLevels[1]
                    ELSE RMul(currentPrice, Dec(105, 100))
        sellMax0 == IF Len(sr.resistanceLevels) > 0
                    THEN (IF Len(sr.resistanceLevels) > 1 THEN sr.resistanceLevels[2]
                          ELSE RMul(sellMin0, Dec(105, 100)))
                    ELSE RMul(currentPrice, Dec(115, 100))
        strong  == Gt(trend.strength, Dec(6, 10))
        sellMin == IF trend.trend = "uptrend" /\ strong THEN sellMin0
                   ELSE IF trend.trend = "downtrend" /\ strong
                   THEN RMul(sellMin0, Dec(95, 100))
                   ELSE sellMin0
        sellMax == IF trend.trend = "uptrend" /\ strong THEN RMul(sellMax0, Dec(11, 10))
                   ELSE IF trend.trend = "downtrend" /\ strong
                   THEN RMul(sellMax0, Dec(95, 100))
                   ELSE sellMax0
    IN  [buyRange     |-> PriceRange(buyMin, buyMax),
         halfBuyRange |-> PriceRange(buyMax, currentPrice),
         sellRange    |-> PriceRange(sellMin, sellMax)]

----------------------------------------------------------------------------
(* Index expressions.  An access <<i, n>> is the evaluation of s[i] on a   *)
(* slice of length n; a slice expression s[a:] or s[:a] is the access      *)
(* <<a, n + 1>>, since a may equal the length.  Go panics on an access      *)
(* that is out of range.                                                    *)

InRange(access) == 0 <= access[1] /\ access[1] < access[2]

\* the accesses s[i] for i in a set
Reads(idx, n) == {<<i, n>> : i \in idx}

CalculateSMAReads(n, period) ==
    IF n < period THEN {} ELSE Reads((n - period)..(n - 1), n)

CalculateEMAReads(n, period) ==
    IF n < period THEN {}
    ELSE {<<period, n + 1>>} \cup CalculateSMAReads(period, period)
         \cup Reads(period..(n - 1), n)

CalculateRSIReads(n, period) ==
    IF RSITooShort(n, period) THEN {}
    ELSE Reads((n - period)..(n - 1), n) \cup Reads((n - period - 1)..(n - 2), n)

CalculateMACDReads(n) ==
    IF n < 26 THEN {}
    ELSE CalculateEMAReads(n, 12) \cup CalculateEMAReads(n, 26)
         \cup UNION {{<<i + 1, n + 1>>} \cup CalculateEMAReads(i + 1, 12)
                        \cup CalculateEMAReads(i + 1, 26) : i \in 26..(n - 1)}
         \cup (IF n - 26 >= 9 THEN CalculateEMAReads(n - 26, 9) ELSE {})

CalculateBollingerBandsReads(n, period) ==
    IF n < period THEN {}
    ELSE CalculateSMAReads(n, period) \cup Reads((n - period)..(n - 1), n)

CalculateTechnicalIndicatorsReads(n) ==
    CalculateRSIReads(n, 14) \cup CalculateMACDReads(n)
    \cup CalculateSMAReads(n, 20) \cup CalculateSMAReads(n, 50) \cup CalculateSMAReads(n, 200)
    \cup CalculateEMAReads(n, 12) \cup CalculateEMAReads(n, 26)
    \cup CalculateBollingerBandsReads(n, 20)

\* isInUptrend, isInDowntrend
TrendContextReads(n, lb) ==
    IF n < lb + 1 THEN {} ELSE {<<n - lb - 1, n>>, <<n - 1, n>>}

DetectCandlestickPatternsReads(n) ==
    IF n < 3 THEN {}
    ELSE {<<n - 1, n>>, <<n - 2, n>>, <<n - 3, n>>} \cup TrendContextReads(n, 5)

findPivotPointsReads(n) ==
    UNION {Reads((i - lookback)..(i + lookback), n) : i \in PivotRange(n)}

DetectSupportResistanceReads(n) ==
    IF n < 20 THEN {} ELSE findPivotPointsReads(n) \cup {<<n - 1, n>>}

calculateADXReads(n, period) ==
    IF n < period + 1 THEN {}
    ELSE Reads(1..(n - 1), n) \cup Reads(0..(n - 2), n) \cup Reads(0..(n - 2), n - 1)
         \cup (IF n - 1 < period THEN {} ELSE {<<n - 1 - period, n>>})

AnalyzeTrendReads(n) ==
    IF TrendTooShort(n) THEN {}
    ELSE CalculateSMAReads(n, 20) \cup CalculateSMAReads(n, 50) \cup {<<n - 1, n>>}
         \cup calculateADXReads(n, 14)

\* sr.SupportLevels[0], sr.ResistanceLevels[0] and [1], each after its length test
SynthesizerReads(sr) ==
    (IF Len(sr.supportLevels) > 0 THEN {<<0, Len(sr.supportLevels)>>} ELSE {})
    \cup (IF Len(sr.resistanceLevels) > 0 THEN {<<0, Len(sr.resistanceLevels)>>} ELSE {})
    \cup (IF Len(sr.resistanceLevels) > 1 THEN {<<1, Len(sr.resistanceLevels)>>} ELSE {})

detectTradingRangeReads(n) ==
    IF n < 20 THEN {}
    ELSE LET lb == MinInt(60, n)
         IN  {<<n - lb, n + 1>>}
             \cup UNION {Reads((i - 2)..(i + 2), lb) : i \in SwingRange(lb)}
             \cup {<<0, lb>>}

calculateAverageVolumeReads(n, lb) ==
    Reads((n - (IF n < lb THEN n ELSE lb))..(n - 1), n)

calculateAverageRangeReads(n, idx, lb) == Reads(MaxInt(0, idx - lb)..(idx - 1), n)

\* detectSellingClimax, detectBuyingClimax
ClimaxReads(n, idx) ==
    IF idx < 3 \/ idx >= n - 1 THEN {}
    ELSE {<<idx, n>>, <<idx - 1, n>>, <<idx + 1, n>>, <<MaxInt(0, idx - 5), n>>}
         \cup calculateAverageRangeReads(n, idx, 10)

\* detectSignOfStrength, detectSignOfWeakness
SignReads(n, idx) ==
    IF idx < 3 \/ idx >= n THEN {}
    ELSE {<<idx, n>>} \cup calculateAverageRangeReads(n, idx, 10)

detectWyckoffEventsReads(n) ==
    IF n < 10 THEN {}
    ELSE calculateAverageVolumeReads(n, 20)
         \cup UNION {{<<i, n>>, <<i - 1, n>>, <<i + 1, n>>}
                        \cup ClimaxReads(n, i) \cup SignReads(n, i) : i \in EventRange(n)}

determinePhaseReads(n) ==
    IF n < 20 THEN {} ELSE {<<n - 1, n>>, <<n - 20, n + 1>>, <<19, 20>>, <<0, 20>>}

analyzeEffortVsResultReads(n) ==
    IF n < 10 THEN {}
    ELSE {<<n - 10, n + 1>>} \cup Reads(0..9, 10)
         \cup calculateAverageRangeReads(n, n - 1, 10)

\* generateWyckoffRecommendation and calculateWyckoffZones
WyckoffOutputReads(n) ==
    IF n = 0 THEN {}
    ELSE {<<n - 1, n>>} \cup (IF n >= 10 THEN {<<n - 10, n>>} ELSE {})

AnalyzeWyckoffReads(n) ==
    IF WyckoffTooShort(n) THEN {}
    ELSE detectTradingRangeReads(n) \cup detectWyckoffEventsReads(n)
         \cup determinePhaseReads(n) \cup analyzeEffortVsResultReads(n)
         \cup WyckoffOutputReads(n)

\* every access of Analyze (analyzer.go) on a Series of n > 0 bars
AnalyzeReads(n) ==
    {<<n - 1, n>>}
    \cup CalculateTechnicalIndicatorsReads(n)
    \cup DetectCandlestickPatternsReads(n)
    \cup DetectSupportResistanceReads(n)
    \cup AnalyzeTrendReads(n)

\* Analyze panics with an index out of range
AnalyzePanics(d) ==
    /\ Len(d) > 0
    /\ \/ \E a \in AnalyzeReads(Len(d)) : ~InRange(a)
       \/ \E a \in SynthesizerReads(DetectSupportResistance(d)) : ~InRange(a)

\* the same for Analyze of stock.go
AnalyzeWithWyckoffPanics(d) ==
    \/ AnalyzePanics(d)
    \/ /\ Len(d) > 0
       /\ \E a \in AnalyzeWyckoffReads(Len(d)) : ~InRange(a)

\* the value Analyze returns for an empty Series: no Report
Nil == [isNil |-> TRUE]

\* &models.AnalysisReport{...}; wyckoff is "absent" in the Report of analyzer.go
AnalysisReport(currentPrice, indicators, patterns, sr, trend, wyck, rec, ranges) ==
    [isNil |-> FALSE, currentPrice |-> currentPrice, indicators |-> indicators,
     patterns |-> patterns, supportResistance |-> sr, trend |-> trend,
     wyckoff |-> wyck,
     buyRange |-> ranges.buyRange, halfBuyRange |-> ranges.halfBuyRange,
     sellRange |-> ranges.sellRange,
     recommendation |-> rec.recommendation, recommendationScore |-> rec.score]

\* the Synthesizer's part of Analyze of analyzer.go, from the components' results
Synthesize(currentPrice, indicators, patterns, sr, trend) ==
    AnalysisReport(currentPrice, indicators, patterns, sr, trend, "absent",
                   generateRecommendation(currentPrice, indicators, patterns, sr, trend),
                   calculatePriceRanges(currentPrice, indicators, sr, trend))

\* Analyze of analyzer.go
Analyze(d) ==
    IF Len(d) = 0 THEN Nil
    ELSE Synthesize(RI(At(d, Len(d) - 1).c), CalculateTechnicalIndicators(d),
                    DetectAllTimeframePatterns(d), DetectSupportResistance(d),
                    AnalyzeTrend(d))

\* the Synthesizer's part of Analyze of stock.go
SynthesizeWithWyckoff(currentPrice, indicators, patterns, sr, trend, wyck) ==
    AnalysisReport(currentPrice, indicators, patterns, sr, trend, wyck,
                   generateRecommendationWyckoff(currentPrice, indicators, patterns,
                                                 sr, trend, wyck),
                   calculatePriceRanges(currentPrice, indicators, sr, trend))

\* Analyze of stock.go, which also runs the Wyckoff Analyzer
AnalyzeWithWyckoff(d) ==
    IF Len(d) = 0 THEN Nil
    ELSE SynthesizeWithWyckoff(RI(At(d, Len(d) - 1).c), CalculateTechnicalIndicators(d),
                               DetectAllTimeframePatterns(d), DetectSupportResistance(d),
                               AnalyzeTrend(d), AnalyzeWyckoff(d))

----------------------------------------------------------------------------
(* The input Series *)

\* bars the Series are built from: quiet bars at 100 and at 50, a wide bullish
\* bar on high volume, a bar with a spike high, a bar with a dip low, and a
\* down bar followed by a wide bearish bar on high volume
Quiet     == Bar(100, 101, 100, 100, 10)
QuietUp   == Bar(100, 101, 100, 101, 10)
Surge     == Bar(100, 110, 100, 109, 30)
Low50     == Bar(50, 51, 50, 50, 10)
Spike50   == Bar(50, 53, 50, 50, 10)
Dip       == Bar(100, 101, 97, 100, 10)
Down      == Bar(100, 101, 99, 99, 10)
Plunge    == Bar(100, 101, 95, 96, 30)
\* quiet bars with a high of 102 and of 103
Bump      == Bar(100, 102, 100, 100, 10)
Spike     == Bar(100, 103, 100, 100, 10)
\* a bar with open = high = low = close
Level     == Bar(100, 100, 100, 100, 10)

\* ten-bar segments
Still     == [i \in 1..10 |-> Level]
Flat      == [i \in 1..10 |-> Quiet]
FlatHigh  == [i \in 1..10 |-> QuietUp]
Rally     == [i \in 1..10 |-> IF i % 2 = 1 THEN Quiet ELSE Surge]
TailSurge == [i \in 1..10 |-> IF i = 10 THEN Surge ELSE Quiet]
Climax    == [i \in 1..10 |-> IF i = 7 THEN Down ELSE IF i = 8 THEN Plunge ELSE Quiet]
Blowoff   == [i \in 1..10 |-> IF i = 7 THEN QuietUp ELSE IF i = 8 THEN Surge ELSE Quiet]
LowSpike  == [i \in 1..10 |-> IF i = 5 THEN Spike50 ELSE Low50]
HighDip   == [i \in 1..10 |-> IF i = 5 THEN Dip ELSE Quiet]
\* a high of 103 that the next bar gives back, a low of 97 that the next bar
\* recovers, and a lesser high and low between them
Shakeout  == <<Spike, Down, Quiet, Quiet, Dip, QuietUp, Quiet, Bump, Quiet, Quiet>>

Segments == {Still, Flat, FlatHigh, Rally, TailSurge, Climax, Blowoff, LowSpike, HighDip,
             Shakeout}

\* the most segments a Series is built from
MaxSegs == 2

\* the lengths of the Series: around every window of the components
Lens == {0, 1, 2, 3, 6, 10, 14, 15, 19, 20, 25, 26, 29, 30, 34, 35}

\* longer Series, built by repeating one segment: past the 50-bar and 60-bar windows
LongLens == {50, 60}

RECURSIVE Concat(_)
Concat(segs) == IF segs = << >> THEN << >> ELSE Head(segs) \o Concat(Tail(segs))

\* the first len bars of the segments, repeated as often as len needs
SeriesOf(segs, len) ==
    LET base == Concat(segs)
    IN  [i \in 1..len |-> base[((i - 1) % Len(base)) + 1]]

\* 50 bars that close at 100, but for a first bar 14 away from it and five last bars
\* that move 1..5 the other way: the regression line is almost level while the last
\* close is beyond the 20-bar mean and that beyond the 50-bar mean. The highs and
\* lows stay fixed, or zigzag with the rises three times the falls.
LateMove(sign, zigzag) ==
    [i \in 1..50 |->
        LET c == IF i = 1 THEN 100 + 14 * sign
                 ELSE IF i > 45 THEN 100 + (i - 45) * sign
                 ELSE 100
        IN  IF zigzag THEN Bar(c, 120 + 3 * (i % 2), 80 - ((i + 1) % 2), c, 10)
            ELSE Bar(c, 120, 80, c, 10)]

\* 60 bars: ten closes 30 away from 100, then closes at 100, then five last bars that
\* move 1..5 to the side the Series started on: the regression line runs one way over
\* the whole Series while the last close, the 20-bar mean and the 50-bar mean line up
\* the other way
LateRebound(sign) ==
    [i \in 1..60 |->
        LET c == IF i <= 10 THEN 100 + 30 * sign
                 ELSE IF i > 55 THEN 100 + (i - 55) * sign
                 ELSE 100
        IN  Bar(c, 140, 60, c, 10)]

----------------------------------------------------------------------------
(* The engine as a state machine: a Series arrives, one operation runs on it *)

\* the values of the handler's variables before a request arrives
NoRequest  == [method |-> "", decodes |-> FALSE, symbol |-> "", daysBack |-> 0]
NoResponse == [code |-> 0, error |-> "", payload |-> [isNil |-> TRUE]]
NoInfo     == [called |-> FALSE, err |-> FALSE, longName |-> "", shortName |-> ""]

NoResult == "none"

\* no operation has run yet
NothingCalled ==
    /\ called = "none"
    /\ panicked = FALSE
    /\ analysisReport = NoResult
    /\ wyckoffAnalysis = NoResult
    /\ supportResistance = NoResult
    /\ trendAnalysis = NoResult
    /\ candleShapes = NoResult
    /\ candlestickPatterns = NoResult
    /\ secondReport = NoResult
    /\ clock = 0
    /\ historicalData = NoResult
    /\ technicalIndicators = NoResult
    /\ consolidateOutput = NoResult
    /\ request = NoRequest
    /\ pc = "idle"
    /\ response = NoResponse
    /\ analyzerCalls = 0
    /\ stockInfo = NoInfo

Init ==
    /\ \/ \E k \in 1..MaxSegs : \E segs \in [1..k -> Segments] :
             \E len \in (IF k = 1 THEN Lens \cup LongLens ELSE Lens) :
                series = SeriesOf(segs, len)
       \/ \E sign \in {1, -1} : \E zigzag \in BOOLEAN : series = LateMove(sign, zigzag)
       \/ \E sign \in {1, -1} : series = LateRebound(sign)
    /\ chart = NoResult
    /\ priceUnit = 1
    /\ consolidateInput = << >>
    /\ NothingCalled

\* a component that reverses data in place
SeriesReversedInPlace(d) == Reverse(d)

\* the Series after a call of Analyze: no component assigns to an element of
\* data (the sorts act on slices the components build by append)
SeriesAfterAnalyze(d) == d

\* Date: time.Now() and PriceHistory: data of the Report; nil stays nil
Stamped(report, now, d) ==
    IF report.isNil THEN report
    ELSE report @@ [date |-> now, priceHistory |-> d]

DoAnalyze ==
    /\ called = "none"
    /\ called' = "Analyze"
    /\ panicked' = AnalyzePanics(series)
    /\ series' = SeriesAfterAnalyze(series)
    /\ analysisReport' = IF panicked' THEN NoResult
                         ELSE Stamped(Analyze(series), clock, series')
    /\ clock' = clock + 1
    /\ UNCHANGED <<wyckoffAnalysis, supportResistance, trendAnalysis, candleShapes,
                   candlestickPatterns, secondReport, historicalData, chart,
                 technicalIndicators,
                 priceUnit,
                 consolidateInput,
                 consolidateOutput,
                 request,
                 pc,
                 response,
                 analyzerCalls,
                 stockInfo>>

DoAnalyzeWithWyckoff ==
    /\ called = "none"
    /\ called' = "AnalyzeWithWyckoff"
    /\ panicked' = AnalyzeWithWyckoffPanics(series)
    /\ series' = SeriesAfterAnalyze(series)
    /\ analysisReport' = IF panicked' THEN NoResult
                         ELSE Stamped(AnalyzeWithWyckoff(series), clock, series')
    /\ clock' = clock + 1
    /\ UNCHANGED <<wyckoffAnalysis, supportResistance, trendAnalysis, candleShapes,
                   candlestickPatterns, secondReport, historicalData, chart,
                 technicalIndicators,
                 priceUnit,
                 consolidateInput,
                 consolidateOutput,
                 request,
                 pc,
                 response,
                 analyzerCalls,
                 stockInfo>>

\* a second call of the same Analyze on the same slice
DoAnalyzeAgain ==
    /\ called \in {"Analyze", "AnalyzeWithWyckoff"}
    /\ ~panicked
    /\ called' = IF called = "Analyze" THEN "AnalyzeTwice" ELSE "AnalyzeWithWyckoffTwice"
    /\ series' = SeriesAfterAnalyze(series)
    /\ secondReport' = Stamped(IF called = "Analyze" THEN Analyze(series)
                               ELSE AnalyzeWithWyckoff(series), clock, series')
    /\ clock' = clock + 1
    /\ UNCHANGED <<panicked, analysisReport, wyckoffAnalysis, supportResistance,
                   trendAnalysis, candleShapes, candlestickPatterns, historicalData,
                   chart,
                 technicalIndicators,
                 priceUnit,
                 consolidateInput,
                 consolidateOutput,
                 request,
                 pc,
                 response,
                 analyzerCalls,
                 stockInfo>>

DoAnalyzeWyckoff ==
    /\ called = "none"
    /\ called' = "AnalyzeWyckoff"
    /\ wyckoffAnalysis' = AnalyzeWyckoff(series)
    /\ UNCHANGED <<series, panicked, analysisReport, supportResistance, trendAnalysis,
                   candleShapes, candlestickPatterns, secondReport, clock,
                   historicalData, chart,
                 technicalIndicators,
                 priceUnit,
                 consolidateInput,
                 consolidateOutput,
                 request,
                 pc,
                 response,
                 analyzerCalls,
                 stockInfo>>

DoDetectSupportResistance ==
    /\ called = "none"
    /\ called' = "DetectSupportResistance"
    /\ supportResistance' = DetectSupportResistance(series)
    /\ UNCHANGED <<series, panicked, analysisReport, wyckoffAnalysis, trendAnalysis,
                   candleShapes, candlestickPatterns, secondReport, clock,
                   historicalData, chart,
                 technicalIndicators,
                 priceUnit,
                 consolidateInput,
                 consolidateOutput,
                 request,
                 pc,
                 response,
                 analyzerCalls,
                 stockInfo>>

DoAnalyzeTrend ==
    /\ called = "none"
    /\ called' = "AnalyzeTrend"
    /\ trendAnalysis' = AnalyzeTrendIn(series, priceUnit)
    /\ UNCHANGED <<series, panicked, analysisReport, wyckoffAnalysis, supportResistance,
                   candleShapes, candlestickPatterns, secondReport, clock,
                   historicalData, chart,
                 technicalIndicators,
                 priceUnit,
                 consolidateInput,
                 consolidateOutput,
                 request,
                 pc,
                 response,
                 analyzerCalls,
                 stockInfo>>

DoCalculateTechnicalIndicators ==
    /\ called = "none"
    /\ called' = "CalculateTechnicalIndicators"
    /\ technicalIndicators' = CalculateTechnicalIndicatorsIn(series, priceUnit)
    /\ UNCHANGED <<series, panicked, analysisReport, wyckoffAnalysis, supportResistance,
                   trendAnalysis, candleShapes, candlestickPatterns, secondReport, clock,
                   historicalData, chart, priceUnit,
                 consolidateInput,
                 consolidateOutput,
                 request,
                 pc,
                 response,
                 analyzerCalls,
                 stockInfo>>

\* the thresholds isSmallBody is asked about
SmallBodyThresholds == {Dec(1, 10), Dec(3, 10)}

DoCandleShapes ==
    /\ called = "none"
    /\ Len(series) > 0
    /\ called' = "CandleShapes"
    /\ \E threshold \in SmallBodyThresholds :
          candleShapes' = CandleShapes(Last(series), threshold)
    /\ UNCHANGED <<series, panicked, analysisReport, wyckoffAnalysis, supportResistance,
                   trendAnalysis, candlestickPatterns, secondReport, clock,
                   historicalData, chart,
                 technicalIndicators,
                 priceUnit,
                 consolidateInput,
                 consolidateOutput,
                 request,
                 pc,
                 response,
                 analyzerCalls,
                 stockInfo>>

DoDetectCandlestickPatterns ==
    /\ called = "none"
    /\ called' = "DetectCandlestickPatterns"
    /\ candlestickPatterns' = DetectCandlestickPatterns(series)
    /\ UNCHANGED <<series, panicked, analysisReport, wyckoffAnalysis, supportResistance,
                   trendAnalysis, candleShapes, secondReport, clock, historicalData,
                   chart,
                 technicalIndicators,
                 priceUnit,
                 consolidateInput,
                 consolidateOutput,
                 request,
                 pc,
                 response,
                 analyzerCalls,
                 stockInfo>>

Next ==
    \/ DoAnalyze
    \/ DoAnalyzeWithWyckoff
    \/ DoAnalyzeWyckoff
    \/ DoDetectSupportResistance
    \/ DoAnalyzeTrend
    \/ DoCandleShapes
    \/ DoDetectCandlestickPatterns

Spec == Init /\ [][Next]_vars

----------------------------------------------------------------------------
(* The Pattern Detector on its own: Series that end in three chosen candles *)

\* candles of the single-candle shapes: a Dragonfly Doji, a candle that is a
\* Dragonfly Doji and a hammer at once, a hammer, a shooting star, the two
\* Marubozu, and a candle that is a Gravestone Doji and a shooting star at once
Dragonfly     == Bar(100, 100, 97, 100, 10)
DragonHammer  == Bar(1000, 1001, 900, 1001, 10)
HammerBar     == Bar(99, 100, 95, 100, 10)
StarBar       == Bar(100, 105, 100, 101, 10)
WhiteMarubozu == Bar(100, 110, 100, 110, 10)
BlackMarubozu == Bar(110, 110, 100, 100, 10)
GraveStar     == Bar(1001, 1101, 1000, 1000, 10)

\* candles for the three-candle composites: a rising and a falling candle whose body
\* lies inside that of a Marubozu and fills 80% of it, and a rising and a falling
\* candle that close beyond the Marubozu
InsideUp      == Bar(101, 109, 101, 109, 10)
InsideDown    == Bar(109, 109, 101, 101, 10)
BreakUp       == Bar(108, 115, 108, 115, 10)
BreakDown     == Bar(102, 102, 95, 95, 10)

Candles == {Level, Quiet, Dip, Dragonfly, DragonHammer, HammerBar, StarBar, WhiteMarubozu,
            BlackMarubozu, GraveStar, InsideUp, InsideDown, BreakUp, BreakDown}

\* the bar six places from the end, whose close sets the 5-bar trend context
Contexts == {Low50, Bar(2000, 2001, 2000, 2000, 10)}

\* the lengths of these Series: below and at the 3 bars the detector needs,
\* below and at the 6 bars the trend context needs
CandleLens == {0, 1, 2, 3, 5, 6}

\* the last len bars of context, three fillers, and the last three candles
CandleSeries(context, first, second, third, len) ==
    LET all == <<context, first, first, first, second, third>>
    IN  [i \in 1..len |-> all[6 - len + i]]

InitCandles ==
    /\ \E context \in Contexts : \E first \in Candles : \E second \in Candles :
          \E third \in Candles : \E len \in CandleLens :
             series = CandleSeries(context, first, second, third, len)
    /\ chart = NoResult
    /\ priceUnit = 1
    /\ consolidateInput = << >>
    /\ NothingCalled

NextCandles ==
    \/ DoDetectCandlestickPatterns
    \/ DoCandleShapes

SpecCandles == InitCandles /\ [][NextCandles]_vars

----------------------------------------------------------------------------
(* Analyze called twice on one Series *)

\* the Series of one segment, at every length
InitTwice ==
    /\ \E seg \in Segments : \E len \in Lens \cup LongLens :
          series = SeriesOf(<<seg>>, len)
    /\ chart = NoResult
    /\ priceUnit = 1
    /\ consolidateInput = << >>
    /\ NothingCalled

NextTwice ==
    \/ DoAnalyze
    \/ DoAnalyzeWithWyckoff
    \/ DoAnalyzeAgain

SpecTwice == InitTwice /\ [][NextTwice]_vars

----------------------------------------------------------------------------
(* ssi/client.go: the market-data client builds the Series from a chart *)

\* A chart is the decoded YahooChartResult: timestamp, quote (Indicators.Quote,
\* each element with the arrays open, high, low, close, volume) and adjclose
\* (Indicators.AdjClose, each element an array).  A JSON null in an array of
\* numbers decodes to 0.

\* the test that keeps point i: the four arrays reach i, and Open and Close are
\* not zero
KeepsPoint(quote, i) ==
    /\ ~(i >= Len(quote.open) \/ i >= Len(quote.high) \/ i >= Len(quote.low)
          \/ i >= Len(quote.close))
    /\ ~(At(quote.open, i) = 0 \/ At(quote.close, i) = 0)

\* models.StockData{...} for point i
StockDataOf(c, quote, i) ==
    [date     |-> At(c.timestamp, i),
     o        |-> At(quote.open, i),
     h        |-> At(quote.high, i),
     l        |-> At(quote.low, i),
     c        |-> At(quote.close, i),
     v        |-> IF i < Len(quote.volume) THEN At(quote.volume, i) ELSE 0,
     adjClose |-> IF Len(c.adjclose) > 0 /\ i < Len(c.adjclose[1])
                  THEN At(c.adjclose[1], i) ELSE At(quote.close, i)]

\* the k-th index, counted from 1, that the loop keeps
KeptIndex(quote, n, k) ==
    CHOOSE i \in 0..(n - 1) :
        /\ KeepsPoint(quote, i)
        /\ Cardinality({j \in 0..(i - 1) : KeepsPoint(quote, j)}) = k - 1

\* for i, ts := range result.Timestamp { ... stockData = append(stockData, ...) }
StockDataFrom(c, quote) ==
    LET n == Len(c.timestamp)
    IN  [k \in 1..Cardinality({i \in 0..(n - 1) : KeepsPoint(quote, i)}) |->
            StockDataOf(c, quote, KeptIndex(quote, n, k))]

\* GetHistoricalData from the decoded response on
GetHistoricalData(c) ==
    IF Len(c.timestamp) = 0 \/ Len(c.quote) = 0
    THEN [err |-> TRUE, data |-> << >>]
    ELSE [err |-> FALSE, data |-> StockDataFrom(c, c.quote[1])]

\* the most data points of a chart
MaxPoints == 2

\* the value of a field of point i when upstream has one: distinct per point
Quoted(i) == 100 + i

\* one array of the quote: the values of the points that have the field, 0 (a
\* null) for the others, cut by one element if the array is the short one
QuoteArray(n, has, field, short) ==
    [i \in 1..(IF short = field THEN n - 1 ELSE n) |->
        IF field \in has[i] THEN Quoted(i) ELSE 0]

Fields == {"open", "high", "low", "close"}

ChartOf(n, has, short, extras) ==
    [timestamp |-> [i \in 1..n |-> i],
     quote     |-> <<[open   |-> QuoteArray(n, has, "open", short),
                      high   |-> QuoteArray(n, has, "high", short),
                      low    |-> QuoteArray(n, has, "low", short),
                      close  |-> QuoteArray(n, has, "close", short),
                      volume |-> IF extras THEN [i \in 1..n |-> 10] ELSE << >>]>>,
     adjclose  |-> IF extras THEN <<[i \in 1..n |-> Quoted(i) - 1]>> ELSE << >>]

\* a chart without any quote
NoQuoteChart == [timestamp |-> <<1>>, quote |-> << >>, adjclose |-> << >>]

InitClient ==
    /\ \/ \E n \in 0..MaxPoints : \E has \in [1..n -> SUBSET Fields] :
             \E short \in Fields \cup {"none"} : \E extras \in BOOLEAN :
                /\ (n = 0) => (short = "none")
                /\ chart = ChartOf(n, has, short, extras)
       \/ chart = NoQuoteChart
    /\ series = << >>
    /\ priceUnit = 1
    /\ consolidateInput = << >>
    /\ NothingCalled

DoGetHistoricalData ==
    /\ called = "none"
    /\ called' = "GetHistoricalData"
    /\ historicalData' = GetHistoricalData(chart)
    /\ series' = historicalData'.data
    /\ UNCHANGED <<chart, panicked, analysisReport, wyckoffAnalysis, supportResistance,
                   trendAnalysis, candleShapes, candlestickPatterns, secondReport, clock,
                 technicalIndicators,
                 priceUnit,
                 consolidateInput,
                 consolidateOutput,
                 request,
                 pc,
                 response,
                 analyzerCalls,
                 stockInfo>>

NextClient == DoGetHistoricalData

SpecClient == InitClient /\ [][NextClient]_vars

----------------------------------------------------------------------------
(* Series of 250 bars with strictly increasing closes *)

\* where a rising Series steps up by 2 instead of 1 (0: nowhere)
Jumps == {0, 60, 125, 240}

\* the close of bar i (1-based)
RisingClose(base, jump, i) == base + i + (IF jump > 0 /\ i > jump THEN 1 ELSE 0)

\* the shapes of the bars around their close: highs and lows that follow the close,
\* that stay on a fixed ceiling and floor, that zigzag, and that fall while the
\* close rises
RisingShapes == {"follow", "fixed", "zigzag", "falling"}

RisingBar(shape, c, i) ==
    IF shape = "follow" THEN Bar(c, c + 1, c - 1, c, 10)
    ELSE IF shape = "fixed" THEN Bar(c, 300, 1, c, 10)
    ELSE IF shape = "zigzag"
    THEN Bar(c, c + 6 * (i % 2), c - 2 * ((i + 1) % 2), c, 10)
    ELSE Bar(c, 600 - i, 300 - i, c, 10)

RisingSeries(base, jump, shape) ==
    [i \in 1..250 |-> RisingBar(shape, RisingClose(base, jump, i), i)]

\* the price units: whole prices, and increments of 1/1000, 1/2000 and 1/10000
PriceUnits == {1, 1000, 2000, 10000}

InitRising ==
    /\ \E base \in 1..3 : \E jump \in Jumps : \E shape \in RisingShapes :
          series = RisingSeries(base, jump, shape)
    /\ priceUnit \in PriceUnits
    /\ chart = NoResult
    /\ consolidateInput = << >>
    /\ NothingCalled

NextRising ==
    \/ DoAnalyzeTrend
    \/ DoCalculateTechnicalIndicators

SpecRising == InitRising /\ [][NextRising]_vars

----------------------------------------------------------------------------
(* consolidateLevels on its own *)

\* the most levels in a list
MaxLevels == 4

\* positive levels: equal ones, ones 1%, exactly 2%, just over 2% and far apart
LevelValues == {RI(100), RI(101), RI(102), Dec(1021, 10), RI(103), RI(104), RI(110)}

InitLevels ==
    /\ \E n \in 0..MaxLevels : consolidateInput \in [1..n -> LevelValues]
    /\ series = << >>
    /\ chart = NoResult
    /\ priceUnit = 1
    /\ NothingCalled

\* sort.Float64s sorts the caller's slice in place
DoConsolidateLevels ==
    /\ called = "none"
    /\ called' = "consolidateLevels"
    /\ consolidateInput' = SortFloat64s(consolidateInput)
    /\ consolidateOutput' = consolidateLevels(consolidateInput)
    /\ UNCHANGED <<series, chart, panicked, analysisReport, wyckoffAnalysis,
                   supportResistance, trendAnalysis, candleShapes, candlestickPatterns,
                   secondReport, clock, historicalData, technicalIndicators, priceUnit,
                 request,
                 pc,
                 response,
                 analyzerCalls,
                 stockInfo>>

NextLevels == DoConsolidateLevels

SpecLevels == InitLevels /\ [][NextLevels]_vars

----------------------------------------------------------------------------
(* Properties *)

\* Analyze, in either version, has returned a Report
HasReport ==
    /\ called \in {"Analyze", "AnalyzeWithWyckoff"}
    /\ ~panicked
    /\ ~analysisReport.isNil

\* every bar of the Series has positive prices and high >= low
PositivePrices ==
    \A i \in 1..Len(series) :
        /\ series[i].o > 0 /\ series[i].h > 0 /\ series[i].l > 0 /\ series[i].c > 0
        /\ series[i].h >= series[i].l

Ordered(range) == Le(range.min, range.max)

InInterval(x, lo, hi) == Ge(x, lo) /\ Le(x, hi)

\* C1: the Synthesizer's score of a Report lies in [-1, 1] and alone decides
\* the label: buy iff score > 0.3, sell iff score < -0.3, hold otherwise, in
\* the Wyckoff-free and in the Wyckoff-including version.
C1_ScoreDecidesLabel ==
    HasReport =>
        LET score == analysisReport.recommendationScore
            label == analysisReport.recommendation
        IN  /\ InInterval(score, RI(-1), RI(1))
            /\ label \in {"buy", "sell", "hold"}
            /\ (label = "buy") <=> Gt(score, Dec(3, 10))
            /\ (label = "sell") <=> Lt(score, Dec(-3, 10))

\* a Wyckoff-including Report labelled buy on a score between 0.3 and 0.4
C1_Witness ==
    /\ HasReport
    /\ called = "AnalyzeWithWyckoff"
    /\ analysisReport.recommendation = "buy"
    /\ Le(analysisReport.recommendationScore, Dec(4, 10))

\* C2: in every Report on a Series with positive prices, BuyRange,
\* HalfBuyRange and SellRange each have min <= max.
C2_PriceRangesOrdered ==
    (HasReport /\ PositivePrices) =>
        /\ Ordered(analysisReport.buyRange)
        /\ Ordered(analysisReport.halfBuyRange)
        /\ Ordered(analysisReport.sellRange)

\* C3: Analyze returns no Report exactly when the Series is empty; on every
\* non-empty Series it ends without an out-of-range access and returns a
\* Report.
C3_ReportUnlessEmpty ==
    called \in {"Analyze", "AnalyzeWithWyckoff"} =>
        /\ ~panicked
        /\ analysisReport.isNil <=> (Len(series) = 0)

\* Analyze has returned a Report on a single bar, below every window
C3_Witness ==
    /\ HasReport
    /\ Len(series) = 1

\* C4: the Wyckoff-only score lies in [-1, 1]; the Wyckoff recommendation is
\* buy iff score > 0.4, sell iff score < -0.4, hold otherwise; an unknown or
\* insufficient_data phase gives hold with score 0.
C4_WyckoffScoreDecidesLabel ==
    called = "AnalyzeWyckoff" =>
        LET score == wyckoffAnalysis.recommendationScore
            label == wyckoffAnalysis.recommendation
        IN  /\ InInterval(score, RI(-1), RI(1))
            /\ label \in {"buy", "sell", "hold"}
            /\ (label = "buy") <=> Gt(score, Dec(4, 10))
            /\ (label = "sell") <=> Lt(score, Dec(-4, 10))
            /\ wyckoffAnalysis.phase \in {"unknown", "insufficient_data"}
                  => label = "hold" /\ score = RI(0)

\* a Wyckoff analysis that recommends selling
C4_Witness ==
    /\ called = "AnalyzeWyckoff"
    /\ wyckoffAnalysis.recommendation = "sell"
    /\ wyckoffAnalysis.phase = "distribution"

\* C5: the phaseConfidence AnalyzeWyckoff returns lies in [0, 1].
C5_PhaseConfidenceInUnitInterval ==
    called = "AnalyzeWyckoff" =>
        InInterval(wyckoffAnalysis.phaseConfidence, RI(0), RI(1))

\* C6: on a Series of at least 30 bars with high >= low in every bar, the
\* trading range has min <= max.
C6_TradingRangeOrdered ==
    (called = "AnalyzeWyckoff" /\ Len(series) >= 30 /\ PositivePrices) =>
        Ordered(wyckoffAnalysis.tradingRange)

\* AnalyzeWyckoff has run on at least 30 bars and found a range with min < max
ZonesCase ==
    /\ called = "AnalyzeWyckoff"
    /\ Len(series) >= 30
    /\ Lt(wyckoffAnalysis.tradingRange.min, wyckoffAnalysis.tradingRange.max)

\* the four zones each have min <= max
ZonesOrdered ==
    /\ Ordered(wyckoffAnalysis.buyZone)
    /\ Ordered(wyckoffAnalysis.accumulationZone)
    /\ Ordered(wyckoffAnalysis.distributionZone)
    /\ Ordered(wyckoffAnalysis.sellZone)

\* the events of one name in the last ten bars of the Series
RecentNamed(name) ==
    {i \in 1..Len(wyckoffAnalysis.events) :
        /\ wyckoffAnalysis.events[i].name = name
        /\ IsRecent(wyckoffAnalysis.events[i], Len(series) - 10)}

\* C7 as stated: when the trading range has min < max the four zones do not
\* overlap (buy.max <= accumulation.min, accumulation.max <= distribution.min,
\* distribution.max <= sell.min) and each has min <= max, whatever the events.
C7_ZonesNeverOverlap ==
    ZonesCase =>
        /\ Le(wyckoffAnalysis.buyZone.max, wyckoffAnalysis.accumulationZone.min)
        /\ Le(wyckoffAnalysis.accumulationZone.max, wyckoffAnalysis.distributionZone.min)
        /\ Le(wyckoffAnalysis.distributionZone.max, wyckoffAnalysis.sellZone.min)
        /\ ZonesOrdered

\* C7 amended: each zone has min <= max and accumulation.max <=
\* distribution.min always; buy.max <= accumulation.min exactly when no
\* Selling Climax is recent, and distribution.max <= sell.min exactly when no
\* Buying Climax is recent: each recent climax moves that edge by 10% of the
\* range into the neighbouring zone.
C7_ZonesOverlapOnlyAfterClimax ==
    ZonesCase =>
        /\ ZonesOrdered
        /\ Le(wyckoffAnalysis.accumulationZone.max, wyckoffAnalysis.distributionZone.min)
        /\ Le(wyckoffAnalysis.buyZone.max, wyckoffAnalysis.accumulationZone.min)
              <=> (RecentNamed("Selling Climax") = {})
        /\ Le(wyckoffAnalysis.distributionZone.max, wyckoffAnalysis.sellZone.min)
              <=> (RecentNamed("Buying Climax") = {})

\* a recent Selling Climax has widened the buy zone
C7_Witness ==
    /\ ZonesCase
    /\ RecentNamed("Selling Climax") # {}

StrictlyAscending(levels) ==
    \A i \in 1..(Len(levels) - 1) : Lt(levels[i], levels[i + 1])

\* C8: on positive prices DetectSupportResistance returns at most 3 supports
\* and 3 resistances, every support strictly below the last close and every
\* resistance strictly above it, supports strictly descending and resistances
\* strictly ascending.
C8_LevelsBracketPrice ==
    (called = "DetectSupportResistance" /\ PositivePrices /\ Len(series) > 0) =>
        LET supports     == supportResistance.supportLevels
            resistances  == supportResistance.resistanceLevels
            currentPrice == RI(Last(series).c)
        IN  /\ Len(supports) <= 3
            /\ Len(resistances) <= 3
            /\ \A i \in 1..Len(supports) : Lt(supports[i], currentPrice)
            /\ \A i \in 1..Len(resistances) : Gt(resistances[i], currentPrice)
            /\ StrictlyAscending(Reverse(supports))
            /\ StrictlyAscending(resistances)

\* two supports and a resistance were found
C8_Witness ==
    /\ called = "DetectSupportResistance"
    /\ Len(supportResistance.supportLevels) >= 2
    /\ Len(supportResistance.resistanceLevels) >= 1

\* C9: the phase is insufficient_data iff the Series has fewer than 30 bars,
\* and then the confidence is 0, there are no events, the trading range and
\* the four zones are {0, 0}, effortResult is unknown, and the recommendation
\* is hold with score 0.
C9_InsufficientDataBelow30 ==
    called = "AnalyzeWyckoff" =>
        /\ (wyckoffAnalysis.phase = "insufficient_data") <=> (Len(series) < 30)
        /\ Len(series) < 30 =>
              /\ wyckoffAnalysis.phaseConfidence = RI(0)
              /\ wyckoffAnalysis.events = << >>
              /\ wyckoffAnalysis.tradingRange = ZeroRange
              /\ wyckoffAnalysis.buyZone = ZeroRange
              /\ wyckoffAnalysis.accumulationZone = ZeroRange
              /\ wyckoffAnalysis.distributionZone = ZeroRange
              /\ wyckoffAnalysis.sellZone = ZeroRange
              /\ wyckoffAnalysis.effortResult = "unknown"
              /\ wyckoffAnalysis.recommendation = "hold"
              /\ wyckoffAnalysis.recommendationScore = RI(0)

\* AnalyzeWyckoff has run on exactly 30 bars, the shortest analysed Series
C9_Witness ==
    /\ called = "AnalyzeWyckoff"
    /\ Len(series) = 30
    /\ wyckoffAnalysis.phase # "insufficient_data"

\* C10: on fewer than 20 bars AnalyzeTrend returns {sideways, 0, 0} and
\* DetectSupportResistance returns two empty lists.
C10_NeutralBelow20 ==
    Len(series) < 20 =>
        /\ called = "AnalyzeTrend" =>
              trendAnalysis = [trend |-> "sideways", strength |-> RI(0), trendLine |-> RI(0)]
        /\ called = "DetectSupportResistance" =>
              supportResistance = [supportLevels |-> << >>, resistanceLevels |-> << >>]

\* AnalyzeTrend has run on 19 bars that are not flat
C10_Witness ==
    /\ called = "AnalyzeTrend"
    /\ Len(series) = 19
    /\ \E i \in 1..Len(series) : series[i].c # series[1].c

\* the trailing 14 bar-to-bar close changes hold no loss
NoLossInTrailing14 ==
    /\ Len(series) >= 15
    /\ \A i \in (Len(series) - 14)..(Len(series) - 1) :
           At(series, i).c >= At(series, i - 1).c

\* C11: the RSI(14) of every Report lies in [0, 100]; it is exactly 50 on a
\* Series of fewer than 15 bars and exactly 100 when the trailing 14 close
\* changes hold no loss, the flat case included.
C11_RSIBounded ==
    HasReport =>
        LET rsi == analysisReport.indicators.rsi
        IN  /\ InInterval(rsi, RI(0), RI(100))
            /\ Len(series) < 15 => rsi = RI(50)
            /\ NoLossInTrailing14 => rsi = RI(100)

\* a Report on flat trailing closes: gains and losses are both zero
C11_Witness ==
    /\ HasReport
    /\ Len(series) >= 15
    /\ \A i \in (Len(series) - 14)..(Len(series) - 1) :
           At(series, i).c = At(series, i - 1).c
    /\ analysisReport.indicators.rsi = RI(100)

\* the events the event scan has recorded, standalone or inside a Report
RecordedEvents ==
    IF called = "AnalyzeWyckoff" THEN wyckoffAnalysis.events
    ELSE IF called = "AnalyzeWithWyckoff" /\ HasReport THEN analysisReport.wyckoff.events
    ELSE << >>

\* C12: every recorded WyckoffEvent has confidence in [0.7, 0.95], and every
\* Selling Climax and Buying Climax has confidence at least 0.8.
C12_EventConfidenceBounded ==
    \A i \in 1..Len(RecordedEvents) :
        LET event == RecordedEvents[i]
        IN  /\ InInterval(event.confidence, Dec(7, 10), Dec(95, 100))
            /\ event.name \in {"Selling Climax", "Buying Climax"}
                  => Ge(event.confidence, Dec(8, 10))

\* a scan that recorded a Spring at 0.7 and a climax with both boosts at 0.95
C12_Witness ==
    /\ \E i \in 1..Len(RecordedEvents) :
          /\ RecordedEvents[i].name = "Spring"
          /\ RecordedEvents[i].confidence = Dec(7, 10)
    /\ \E i \in 1..Len(RecordedEvents) :
          /\ RecordedEvents[i].name \in {"Selling Climax", "Buying Climax"}
          /\ RecordedEvents[i].confidence = Dec(95, 100)

\* the shape predicates have been applied to a bar with high = low
ZeroRangeShapes ==
    /\ called = "CandleShapes"
    /\ candleShapes.candle.h = candleShapes.candle.l

\* none of the six range-based pattern predicates holds
NoRangePattern ==
    /\ ~candleShapes.isDoji
    /\ ~candleShapes.isDragonflyDoji
    /\ ~candleShapes.isGravestoneDoji
    /\ ~candleShapes.isSpinningTop
    /\ ~candleShapes.isBullishMarubozu
    /\ ~candleShapes.isBearishMarubozu

\* C13: on a bar with high = low, Doji, Dragonfly Doji, Gravestone Doji,
\* Spinning Top, both Marubozu predicates and isSmallBody all return false,
\* and none of them divides by the zero range.
C13_ZeroRangeAllFalse ==
    ZeroRangeShapes =>
        /\ NoRangePattern
        /\ ~candleShapes.isSmallBody
        /\ 0 \notin candleShapes.divisors

\* C13 as the code has it: on a bar with high = low the six pattern predicates
\* return false and isSmallBody returns true, none dividing by the zero range.
C13_ZeroRangeGuarded ==
    ZeroRangeShapes =>
        /\ NoRangePattern
        /\ candleShapes.isSmallBody
        /\ 0 \notin candleShapes.divisors

\* the predicates applied to the bar 100/100/100/100
C13_Witness ==
    /\ ZeroRangeShapes
    /\ candleShapes.candle = Level

\* the number of reported patterns whose name is in a family
Reported(family) ==
    Cardinality({i \in 1..Len(candlestickPatterns) : candlestickPatterns[i].name \in family})

\* C14: the list of DetectCandlestickPatterns holds at most one of Dragonfly
\* Doji, Gravestone Doji and Doji, at most one of Hanging Man and Hammer, and
\* at most one of Inverted Hammer and Shooting Star; the earlier-named pattern
\* of a family is reported whenever its predicate holds; and the list is empty
\* for a Series of fewer than 3 bars.
C14_FamiliesExclusive ==
    called = "DetectCandlestickPatterns" =>
        /\ Reported({"Dragonfly Doji", "Gravestone Doji", "Doji"}) <= 1
        /\ Reported({"Hanging Man", "Hammer"}) <= 1
        /\ Reported({"Inverted Hammer", "Shooting Star"}) <= 1
        /\ Len(series) < 3 => candlestickPatterns = << >>
        /\ Len(series) >= 3 =>
              /\ isDragonflyDoji(Last(series)) => Reported({"Dragonfly Doji"}) = 1
              /\ isGravestoneDoji(Last(series)) => Reported({"Gravestone Doji"}) = 1
              /\ isHangingMan(Last(series), series) => Reported({"Hanging Man"}) = 1
              /\ isInvertedHammer(Last(series), series) => Reported({"Inverted Hammer"}) = 1

\* a hammer-shaped Dragonfly Doji after a 5-bar rise: the Hammer and the
\* Doji predicates hold, Hanging Man and Dragonfly Doji are the ones reported
C14_Witness ==
    /\ called = "DetectCandlestickPatterns"
    /\ Len(series) >= 3
    /\ isHammer(Last(series)) /\ isDoji(Last(series))
    /\ Reported({"Hanging Man"}) = 1
    /\ Reported({"Dragonfly Doji"}) = 1

\* a Report without its timestamp
Undated(report) == IF report.isNil THEN report ELSE [report EXCEPT !.date = 0]

C16_NoZeroPrices ==
    (called = "GetHistoricalData" /\ ~historicalData.err) =>
        /\ \A i \in 1..Len(series) :
              series[i].o # 0 /\ series[i].h # 0 /\ series[i].l # 0 /\ series[i].c # 0
        /\ \A i \in 1..(Len(series) - 1) : series[i].date < series[i + 1].date

\* a flat Series of 60 bars: open = high = low = close = 100, constant volume
Flat60 ==
    /\ Len(series) = 60
    /\ \A i \in 1..60 : series[i] = [Level EXCEPT !.v = series[1].v]

\* C17 as stated: on a flat Series of 60 bars AnalyzeWyckoff reports phase "unknown",
\* no candlestick pattern fires and the trend is sideways with strength 0.
C17_FlatPhaseUnknown ==
    Flat60 =>
        /\ called = "AnalyzeWyckoff" => wyckoffAnalysis.phase = "unknown"
        /\ called = "DetectCandlestickPatterns" => candlestickPatterns = << >>
        /\ called = "AnalyzeTrend" =>
              trendAnalysis.trend = "sideways" /\ trendAnalysis.strength = RI(0)

\* C17: on a flat Series of 60 bars AnalyzeWyckoff reports phase "accumulation" with
\* confidence 0.5 (a range of size 0 counts as 1, the price sits at position 0 of it
\* and nothing trends), no candlestick pattern fires and the trend is sideways with
\* strength 0.
C17_FlatPhaseAccumulation ==
    Flat60 =>
        /\ called = "AnalyzeWyckoff" =>
              /\ wyckoffAnalysis.phase = "accumulation"
              /\ wyckoffAnalysis.phaseConfidence = Dec(5, 10)
        /\ called = "DetectCandlestickPatterns" => candlestickPatterns = << >>
        /\ called = "AnalyzeTrend" =>
              trendAnalysis.trend = "sideways" /\ trendAnalysis.strength = RI(0)

\* AnalyzeWyckoff has run on the flat Series: its range is 100..100, without events
C17_Witness ==
    /\ Flat60
    /\ called = "AnalyzeWyckoff"
    /\ wyckoffAnalysis.tradingRange = PriceRange(RI(100), RI(100))
    /\ wyckoffAnalysis.events = << >>

\* the Series has 250 bars and every close is above the one before
Rising250 ==
    /\ Len(series) = 250
    /\ \A i \in 2..250 : series[i].c > series[i - 1].c

\* C18: on every Series of 250 bars with strictly increasing closes, however small
\* the increments, AnalyzeTrend returns uptrend with a strength in [0.6, 1], and the
\* indicators have SMA20 > SMA50 > SMA200 and RSI(14) = 100.
C18_RisingIsUptrend ==
    Rising250 =>
        /\ called = "AnalyzeTrend" =>
              /\ trendAnalysis.trend = "uptrend"
              /\ InInterval(trendAnalysis.strength, Dec(6, 10), RI(1))
        /\ called = "CalculateTechnicalIndicators" =>
              /\ Gt(technicalIndicators.sma20, technicalIndicators.sma50)
              /\ Gt(technicalIndicators.sma50, technicalIndicators.sma200)
              /\ technicalIndicators.rsi = RI(100)

\* AnalyzeTrend has run on a rising Series whose slope does not pass the 0.001 test:
\* the strength 0.6 comes from the moving averages alone
C18_Witness ==
    /\ Rising250
    /\ called = "AnalyzeTrend"
    /\ ~Gt(InUnits(linearRegression(series).slope, priceUnit), Dec(1, 1000))
    /\ trendAnalysis.strength = Dec(6, 10)

\* the moving-average test of AnalyzeTrend applies to the Series
MAAligned ==
    LET currentPrice == Dec(Last(series).c, priceUnit)
        sma20 == InUnits(CalculateSMA(series, 20), priceUnit)
        sma50 == InUnits(CalculateSMA(series, 50), priceUnit)
    IN  /\ Len(series) >= 50
        /\ \/ Gt(currentPrice, sma20) /\ Gt(sma20, sma50)
           \/ Lt(currentPrice, sma20) /\ Lt(sma20, sma50)

\* min(|slope| * 1000, 1) when |slope| > 0.001, else 0
SlopeStrength ==
    LET slope == RAbs(InUnits(linearRegression(series).slope, priceUnit))
    IN  IF Gt(slope, Dec(1, 1000)) THEN RMin(RMul(slope, RI(1000)), RI(1)) ELSE RI(0)

\* the strengths the heuristics of AnalyzeTrend contribute on the Series
TrendHeuristics ==
    IF Len(series) < 20 THEN {RI(0)}
    ELSE {SlopeStrength}
         \cup (IF MAAligned THEN {Dec(6, 10)} ELSE {})
         \cup (IF Gt(calculateADX(series, 14), RI(25))
               THEN {FDiv(calculateADX(series, 14), RI(100))} ELSE {})

\* C19: the strength AnalyzeTrend returns lies in [0, 1] and is the maximum of the
\* contributing heuristics (slope strength, 0.6 under moving-average alignment on
\* at least 50 bars, ADX/100 when ADX > 25): one of them, and below none of them.
C19_StrengthIsMaximum ==
    called = "AnalyzeTrend" =>
        /\ InInterval(trendAnalysis.strength, RI(0), RI(1))
        /\ trendAnalysis.strength \in TrendHeuristics
        /\ \A h \in TrendHeuristics : Ge(trendAnalysis.strength, h)

\* AnalyzeTrend has run where the moving averages and the ADX both contribute and
\* the ADX, tested last, gives the lower strength
C19_Witness ==
    /\ called = "AnalyzeTrend"
    /\ MAAligned
    /\ SlopeStrength = RI(0)
    /\ Gt(calculateADX(series, 14), RI(25))
    /\ Lt(FDiv(calculateADX(series, 14), RI(100)), trendAnalysis.strength)

\* the 5 bars before and the 5 bars after bar i (0-based)
Neighbours(i) == ((i - lookback)..(i + lookback)) \ {i}

\* C20: findPivotPoints marks a bar as a swing high only if its High is strictly above
\* the High of each of the 5 bars before and after it, and as a swing low only if its
\* Low is strictly below each of those bars' Low; a tie with a neighbour is no pivot.
C20_PivotsStrict ==
    (called = "DetectSupportResistance" /\ Len(series) >= 20) =>
        \A i \in PivotRange(Len(series)) :
            LET marked == PivotPointsAt(series, i)
            IN  \A k \in 1..Len(marked) :
                    IF marked[k].isLow
                    THEN \A j \in Neighbours(i) : At(series, i).l < At(series, j).l
                    ELSE \A j \in Neighbours(i) : At(series, i).h > At(series, j).h

\* C21: for every list of positive levels consolidateLevels returns a strictly
\* ascending list, no longer than its input, in which adjacent levels differ by more
\* than 2% of the lower one.
C21_ConsolidatedApart ==
    called = "consolidateLevels" =>
        /\ Len(consolidateOutput) <= Len(consolidateInput)
        /\ \A i \in 1..(Len(consolidateOutput) - 1) :
              /\ Lt(consolidateOutput[i], consolidateOutput[i + 1])
              /\ Gt(FDiv(RSub(consolidateOutput[i + 1], consolidateOutput[i]),
                         consolidateOutput[i]),
                    Dec(2, 100))

\* consolidateLevels has merged levels into an average and kept a second level
C21_Witness ==
    /\ called = "consolidateLevels"
    /\ Len(consolidateInput) = 4
    /\ Len(consolidateOutput) = 2
    /\ \E i \in 1..2 : \A j \in 1..4 : consolidateOutput[i] # consolidateInput[j]

\* the regression slope of the Series, in price per bar
RegressionSlope == InUnits(linearRegression(series).slope, priceUnit)

\* C22: the slope-derived strength of AnalyzeTrend is 0 or 1; outside the dead zone
\* (|slope| > 0.001) it is 1 and so is the reported strength; a reported strength
\* strictly between 0 and 1 arises only inside the dead zone, and is then 0.6 from
\* the moving-average alignment or ADX/100.
C22_SlopeStrengthAllOrNothing ==
    (called = "AnalyzeTrend" /\ Len(series) >= 20) =>
        /\ TrendBySlope(RegressionSlope).strength \in {RI(0), RI(1)}
        /\ Gt(RAbs(RegressionSlope), Dec(1, 1000)) =>
              /\ TrendBySlope(RegressionSlope).strength = RI(1)
              /\ trendAnalysis.strength = RI(1)
        /\ (Gt(trendAnalysis.strength, RI(0)) /\ Lt(trendAnalysis.strength, RI(1))) =>
              /\ Le(RAbs(RegressionSlope), Dec(1, 1000))
              /\ \/ MAAligned /\ trendAnalysis.strength = Dec(6, 10)
                 \/ /\ Gt(calculateADX(series, 14), RI(25))
                    /\ trendAnalysis.strength = FDiv(calculateADX(series, 14), RI(100))

\* AnalyzeTrend has run on a Series whose slope is outside the dead zone but below 1,
\* with an ADX that contributes less than 1
C22_Witness ==
    /\ called = "AnalyzeTrend"
    /\ Gt(RAbs(RegressionSlope), Dec(1, 1000))
    /\ Lt(RAbs(RegressionSlope), RI(1))
    /\ Gt(calculateADX(series, 14), RI(25))
    /\ Lt(calculateADX(series, 14), RI(100))
    /\ trendAnalysis.strength = RI(1)

\* C23: on at least 50 bars, when the regression has classified the Series with a
\* slope-derived strength above 0.6, AnalyzeTrend reports a strength no lower than
\* that and the direction the regression gave.
C23_MAKeepsRegressionResult ==
    (/\ called = "AnalyzeTrend"
     /\ Len(series) >= 50
     /\ Gt(TrendBySlope(RegressionSlope).strength, Dec(6, 10))) =>
        /\ Ge(trendAnalysis.strength, TrendBySlope(RegressionSlope).strength)
        /\ trendAnalysis.trend = TrendBySlope(RegressionSlope).trend

\* C24: on Series of bars with positive prices and high >= low, no division of
\* calculateADX (by the average true range, by plusDI + minusDI) and no division of
\* the Wyckoff analyzer (by the average volume, by the average range) has a zero
\* divisor.
C24_NoZeroDivisor ==
    PositivePrices =>
        /\ called = "AnalyzeTrend" => RI(0) \notin calculateADXDivisors(series, 14)
        /\ called = "AnalyzeWyckoff" => RI(0) \notin AnalyzeWyckoffDivisors(series)

\* the sum of field f over the bars lo..hi of the Series (1-based)
SumOver(f(_), lo, hi) == SumF([i \in 1..Len(series) |-> f(series[i])], lo, hi)

BarVolume(bar) == bar.v

BarRange(bar) == bar.h - bar.l

\* the volume of the last 5 bars strictly exceeds that of the 5 bars before them
VolumeRising ==
    SumOver(BarVolume, Len(series) - 4, Len(series))
        > SumOver(BarVolume, Len(series) - 9, Len(series) - 5)

\* the sum of the bar ranges over the 10 bars before the last bar
RangeSum10 == SumOver(BarRange, Len(series) - 10, Len(series) - 1)

\* |close[last] - close[last-9]| is at least twice the average of those ranges
MoveLarge ==
    Ge(FDiv(RI(Abs(Last(series).c - series[Len(series) - 9].c)), R(RangeSum10, 10)), RI(2))

\* C25: on at least 30 bars whose average range over the 10 bars before the last is
\* not zero, effortResult is never "unknown": it is diverging for rising volume with
\* a small move and for falling volume with a large move, confirming otherwise.
C25_EffortResultTable ==
    (called = "AnalyzeWyckoff" /\ Len(series) >= 30 /\ RangeSum10 # 0) =>
        wyckoffAnalysis.effortResult =
            (IF VolumeRising # MoveLarge THEN "diverging" ELSE "confirming")

\* AnalyzeWyckoff has run on a Series with falling volume and a large move
C25_Witness ==
    /\ called = "AnalyzeWyckoff"
    /\ Len(series) >= 30
    /\ RangeSum10 # 0
    /\ ~VolumeRising
    /\ MoveLarge
    /\ wyckoffAnalysis.effortResult = "diverging"

\* C26: a Series too short for every indicator (fewer than 15 bars: RSI 50, MACD 0,
\* SMA 0, Bollinger bands 0), on which no pattern fires, gets the score 0 from the
\* Synthesizer: the under-length sentinels contribute nothing.
C26_SentinelsContributeNothing ==
    (/\ called = "Analyze"
     /\ HasReport
     /\ Len(series) < 15
     /\ analysisReport.patterns.daily = << >>) =>
        analysisReport.recommendationScore = RI(0)

\* the pattern is among those DetectCandlestickPatterns reported
Fired(name) == Reported({name}) > 0

\* C27: whenever Three Inside Up (Down) fires on candles (a, b, c), the Bullish
\* (Bearish) Harami predicate holds on (a, b); whenever Three Outside Up (Down) fires,
\* the Bullish (Bearish) Engulfing predicate holds on (a, b).
C27_CompositeImpliesConstituent ==
    (called = "DetectCandlestickPatterns" /\ Len(series) >= 3) =>
        LET a == series[Len(series) - 2]
            b == series[Len(series) - 1]
        IN  /\ Fired("Three Inside Up") => isBullishHarami(a, b)
            /\ Fired("Three Inside Down") => isBearishHarami(a, b)
            /\ Fired("Three Outside Up") => isBullishEngulfing(a, b)
            /\ Fired("Three Outside Down") => isBearishEngulfing(a, b)

\* the MACD line over every prefix of at least 26 bars, in fixed point
MACDLineFrom26 ==
    LET fx == ToFixed(Closes(series))
    IN  [k \in 1..(Len(series) - 25) |->
            EMAFixed(SubSeq(fx, 1, 25 + k), 12) - EMAFixed(SubSeq(fx, 1, 25 + k), 26)]

\* C28: CalculateMACD returns (0, 0, 0) below 26 bars; from 26 bars on the signal is
\* the 9-period EMA over the MACD-line values of every prefix of length >= 26, 0
\* while fewer than 9 of them exist (fewer than 34 bars) and computed from 34 bars
\* on; histogram = MACD - signal throughout.
C28_SignalOverPrefixesFrom26 ==
    HasReport =>
        LET ind == analysisReport.indicators
        IN  /\ Len(series) < 26 =>
                  ind.macd = RI(0) /\ ind.macdSignal = RI(0) /\ ind.macdHistogram = RI(0)
            /\ Len(series) >= 26 =>
                  ind.macdSignal = R(IF Len(MACDLineFrom26) >= 9
                                     THEN EMAFixed(MACDLineFrom26, 9) ELSE 0, EmaScale)
            /\ ind.macdHistogram = RSub(ind.macd, ind.macdSignal)


\* C29: on a Series of fewer than 30 bars the Analyze that includes the Wyckoff
\* Analyzer returns the recommendation, the recommendation score and the buy,
\* half-buy and sell ranges that the Analyze without it returns: the
\* insufficient_data result has no events, a zero phase confidence and an
\* effortResult of "unknown", and adds nothing to the score
C29_ShortSeriesSameRecommendation ==
    (called = "AnalyzeWithWyckoff" /\ HasReport /\ Len(series) < 30) =>
        LET plain == Analyze(series)
        IN  /\ analysisReport.wyckoff.phase = "insufficient_data"
            /\ Len(analysisReport.wyckoff.events) = 0
            /\ analysisReport.wyckoff.effortResult = "unknown"
            /\ analysisReport.recommendation = plain.recommendation
            /\ analysisReport.recommendationScore = plain.recommendationScore
            /\ analysisReport.buyRange = plain.buyRange
            /\ analysisReport.halfBuyRange = plain.halfBuyRange
            /\ analysisReport.sellRange = plain.sellRange

\* a Report of the Wyckoff-including Analyze on a short Series in a trend,
\* where a diverging effortResult would have moved the score
C29_Witness ==
    /\ called = "AnalyzeWithWyckoff"
    /\ HasReport
    /\ Len(series) < 30
    /\ analysisReport.trend.trend \in {"uptrend", "downtrend"}
    /\ analysisReport.recommendationScore # RI(0)
    /\ analysisReport.recommendationScore = Analyze(series).recommendationScore


----------------------------------------------------------------------------
(* The AnalyzeStock handler, step by step *)

Methods    == {"GET", "POST"}
Symbols    == {"", "VNM"}
DaysBacks  == {0, 30}
LongNames  == {"", "Vietnam Dairy Products JSC"}
ShortNames == {"", "VINAMILK"}

\* respondWithError(w, code, message)
ErrorResponse(code, message) == [code |-> code, error |-> message, payload |-> Nil]

\* a float64 that json.Marshal rejects
NonFinite(x) == x.d = 0

\* json.Marshal(report) returns an error: one of its numbers is NaN or an infinity
MarshalFails(report) ==
    \/ NonFinite(report.currentPrice)
    \/ NonFinite(report.recommendationScore)
    \/ NonFinite(report.trend.strength)
    \/ \E f \in DOMAIN report.indicators : NonFinite(report.indicators[f])
    \/ \E r \in {report.buyRange, report.halfBuyRange, report.sellRange} :
          NonFinite(r.min) \/ NonFinite(r.max)

\* respondWithJSON(w, code, payload) for a Report
respondWithJSON(code, report) ==
    IF MarshalFails(report)
    THEN [code |-> 500, error |-> "Failed to encode response", payload |-> Nil]
    ELSE [code |-> code, error |-> "", payload |-> report]

\* report.CompanyName with the symbol in place of the long name when the lookup
\* returns no long name
CompanyNameSkipsShortName(info, symbol) ==
    IF info.err THEN symbol
    ELSE IF info.longName # "" THEN info.longName
    ELSE symbol

\* report.CompanyName: the symbol after a failed lookup, else the long name, the
\* short name, the symbol, in this order of preference
CompanyName(info, symbol) ==
    IF info.err THEN symbol
    ELSE IF info.longName # "" THEN info.longName
    ELSE IF info.shortName # "" THEN info.shortName
    ELSE symbol

\* a point of the upstream chart: complete, or all null
Complete == {"open", "high", "low", "close"}

InitHandler ==
    /\ \/ \E n \in 0..MaxPoints : \E has \in [1..n -> {Complete, {}}] :
             chart = ChartOf(n, has, "none", TRUE)
       \/ chart = NoQuoteChart
    /\ series = << >>
    /\ priceUnit = 1
    /\ consolidateInput = << >>
    /\ NothingCalled

\* a request arrives
HandlerReceive ==
    /\ pc = "idle"
    /\ \E m \in Methods : \E decodes \in BOOLEAN : \E sym \in Symbols : \E days \in DaysBacks :
          request' = [method |-> m, decodes |-> decodes,
                      symbol |-> IF decodes THEN sym ELSE "",
                      daysBack |-> IF decodes THEN days ELSE 0]
    /\ pc' = "method"
    /\ UNCHANGED <<called, panicked, analysisReport, clock, historicalData, series,
                   response, analyzerCalls, stockInfo, wyckoffAnalysis, supportResistance,
                   trendAnalysis, candleShapes, candlestickPatterns, secondReport,
                   technicalIndicators, priceUnit, consolidateInput, consolidateOutput,
                   chart>>

\* if r.Method != http.MethodPost
HandlerMethod ==
    /\ pc = "method"
    /\ IF request.method # "POST"
       THEN /\ response' = [code |-> 405, error |-> "Method not allowed", payload |-> Nil]
            /\ pc' = "done"
       ELSE /\ response' = response
            /\ pc' = "decode"
    /\ UNCHANGED <<called, panicked, analysisReport, clock, historicalData, series,
                   request, analyzerCalls, stockInfo, wyckoffAnalysis, supportResistance,
                   trendAnalysis, candleShapes, candlestickPatterns, secondReport,
                   technicalIndicators, priceUnit, consolidateInput, consolidateOutput,
                   chart>>

\* json.NewDecoder(r.Body).Decode(&req)
HandlerDecode ==
    /\ pc = "decode"
    /\ IF ~request.decodes
       THEN /\ response' = ErrorResponse(400, "Invalid request body")
            /\ pc' = "done"
       ELSE /\ response' = response
            /\ pc' = "symbol"
    /\ UNCHANGED <<called, panicked, analysisReport, clock, historicalData, series,
                   request, analyzerCalls, stockInfo, wyckoffAnalysis, supportResistance,
                   trendAnalysis, candleShapes, candlestickPatterns, secondReport,
                   technicalIndicators, priceUnit, consolidateInput, consolidateOutput,
                   chart>>

\* if req.Symbol == "", and the default of DaysBack
HandlerSymbol ==
    /\ pc = "symbol"
    /\ IF request.symbol = ""
       THEN /\ response' = ErrorResponse(400, "Symbol is required")
            /\ pc' = "done"
            /\ request' = request
       ELSE /\ response' = response
            /\ pc' = "fetch"
            /\ request' = [request EXCEPT !.daysBack = IF @ = 0 THEN 200 ELSE @]
    /\ UNCHANGED <<called, panicked, analysisReport, clock, historicalData, series,
                   analyzerCalls, stockInfo, wyckoffAnalysis, supportResistance,
                   trendAnalysis, candleShapes, candlestickPatterns, secondReport,
                   technicalIndicators, priceUnit, consolidateInput, consolidateOutput,
                   chart>>

\* h.ssiClient.GetHistoricalData: the upstream call fails, or the chart it
\* returns is decoded; then the tests of err and of len(stockData)
HandlerFetch ==
    /\ pc = "fetch"
    /\ \E fails \in BOOLEAN :
          historicalData' = IF fails THEN [err |-> TRUE, data |-> << >>]
                            ELSE GetHistoricalData(chart)
    /\ series' = historicalData'.data
    /\ IF historicalData'.err
       THEN /\ response' = ErrorResponse(500, "Failed to fetch stock data")
            /\ pc' = "done"
       ELSE IF Len(series') = 0
       THEN /\ response' = ErrorResponse(404, "No data found for symbol")
            /\ pc' = "done"
       ELSE /\ response' = response
            /\ pc' = "analyze"
    /\ UNCHANGED <<called, panicked, analysisReport, clock, request, analyzerCalls,
                   stockInfo, wyckoffAnalysis, supportResistance, trendAnalysis,
                   candleShapes, candlestickPatterns, secondReport, technicalIndicators,
                   priceUnit, consolidateInput, consolidateOutput, chart>>

\* h.analyzer.Analyze(req.Symbol, stockData); its error is always nil
HandlerAnalyze ==
    /\ pc = "analyze"
    /\ called' = "Analyze"
    /\ analyzerCalls' = analyzerCalls + 1
    /\ panicked' = AnalyzePanics(series)
    /\ analysisReport' = IF panicked' THEN NoResult
                         ELSE LET report == Stamped(Analyze(series), clock, series)
                              IN  IF report.isNil THEN report
                                  ELSE report @@ [symbol |-> request.symbol,
                                                  companyName |-> ""]
    /\ clock' = clock + 1
    /\ pc' = IF panicked' THEN "panicked" ELSE "info"
    /\ UNCHANGED <<historicalData, series, request, response, stockInfo, wyckoffAnalysis,
                   supportResistance, trendAnalysis, candleShapes, candlestickPatterns,
                   secondReport, technicalIndicators, priceUnit, consolidateInput,
                   consolidateOutput, chart>>

\* h.ssiClient.GetStockInfo, report.CompanyName = ..., respondWithJSON(w, 200, report);
\* the assignment dereferences report
HandlerStockInfo ==
    /\ pc = "info"
    /\ \E err \in BOOLEAN : \E long \in LongNames : \E short \in ShortNames :
          stockInfo' = [called |-> TRUE, err |-> err,
                        longName |-> IF err THEN "" ELSE long,
                        shortName |-> IF err THEN "" ELSE short]
    /\ IF analysisReport.isNil
       THEN /\ panicked' = TRUE
            /\ analysisReport' = analysisReport
            /\ response' = response
            /\ pc' = "panicked"
       ELSE /\ panicked' = panicked
            /\ analysisReport' =
                  [analysisReport EXCEPT !.companyName = CompanyName(stockInfo', request.symbol)]
            /\ response' = respondWithJSON(200, analysisReport')
            /\ pc' = "done"
    /\ UNCHANGED <<called, clock, historicalData, series, request, analyzerCalls,
                   wyckoffAnalysis, supportResistance, trendAnalysis, candleShapes,
                   candlestickPatterns, secondReport, technicalIndicators, priceUnit,
                   consolidateInput, consolidateOutput, chart>>

NextHandler ==
    \/ HandlerReceive
    \/ HandlerMethod
    \/ HandlerDecode
    \/ HandlerSymbol
    \/ HandlerFetch
    \/ HandlerAnalyze
    \/ HandlerStockInfo

SpecHandler == InitHandler /\ [][NextHandler]_vars


\* the steps of AnalyzeStock in the order of its statements, each with its exit
HandlerOrder ==
    {<<"idle", "method">>, <<"method", "decode">>, <<"decode", "symbol">>,
     <<"symbol", "fetch">>, <<"fetch", "analyze">>, <<"analyze", "info">>,
     <<"info", "done">>,
     <<"method", "done">>, <<"decode", "done">>, <<"symbol", "done">>,
     <<"fetch", "done">>}

\* the status the first failing test of the request decides
ExpectedCode ==
    IF request.method # "POST" THEN 405
    ELSE IF ~request.decodes THEN 400
    ELSE IF request.symbol = "" THEN 400
    ELSE IF historicalData.err THEN 500
    ELSE IF Len(historicalData.data) = 0 THEN 404
    ELSE 200

\* what holds of every state of the handler
HandlerStepsInOrder ==
    /\ pc = "done" => response.code = ExpectedCode
    /\ pc = "done" /\ request.method # "POST" => response.error = "Method not allowed"
    /\ pc = "done" /\ request.method = "POST" /\ ~request.decodes =>
          response.error = "Invalid request body"
    /\ response.code \in {405, 400, 500, 404} => analyzerCalls = 0 /\ ~stockInfo.called
    /\ pc \notin {"done", "panicked"} => response = NoResponse
    /\ analyzerCalls > 0 =>
          /\ analyzerCalls = 1
          /\ Len(series) > 0
          /\ series = historicalData.data
          /\ ~panicked
          /\ ~analysisReport.isNil
    /\ stockInfo.called => analyzerCalls = 1 /\ pc = "done" /\ response.code = 200
    /\ response.code = 200 =>
          /\ response.payload = analysisReport
          /\ response.payload.companyName =
                (IF stockInfo.err THEN request.symbol
                 ELSE IF stockInfo.longName # "" THEN stockInfo.longName
                 ELSE IF stockInfo.shortName # "" THEN stockInfo.shortName
                 ELSE request.symbol)

\* C30: AnalyzeStock runs its steps in a fixed order with early exit: a request
\* that is not a POST gets 405, a body that does not decode 400, an empty symbol
\* 400, a failed fetch 500 and an empty fetched Series 404, each before Analyze is
\* invoked; Analyze is invoked once and only on a non-empty Series, so the Report
\* the handler dereferences is never nil; and whatever the company-info lookup
\* returns, the response is the 200 with the Report, whose CompanyName is the long
\* name, else the short name, else the symbol
C30_HandlerEarlyExits ==
    /\ []HandlerStepsInOrder
    /\ [][pc' # pc => <<pc, pc'>> \in HandlerOrder]_vars

\* a 200 response after a failed company-info lookup
C30_Witness ==
    /\ pc = "done"
    /\ response.code = 200
    /\ analyzerCalls = 1
    /\ stockInfo.called /\ stockInfo.err
    /\ response.payload.companyName = "VNM"

\* a 200 response whose CompanyName is the short name of the lookup
C30_WitnessShortName ==
    /\ response.code = 200
    /\ stockInfo.called /\ ~stockInfo.err
    /\ stockInfo.longName = ""
    /\ response.payload.companyName = "VINAMILK"

====
